---------------------------- MODULE Spec2Model ----------------------------
(***************************************************************************)
(* A model of the nano-wal storage engine (src/src/lib.rs): segment files  *)
(* in one directory, the per-key active-segment table, time-based          *)
(* rotation, the append path with its individual write_all steps, the      *)
(* tolerant record scan, read-by-reference, compaction and shutdown.       *)
(*                                                                         *)
(* Representation.                                                         *)
(*  - A byte is a number 0..255.  A file's data is the sequence of the     *)
(*    chunks written by the successive write_all calls; a chunk is         *)
(*    [bytes |-> <<b1, ..>>, fill |-> n]: the bytes followed by n copies   *)
(*    of FILL_BYTE, so that a 65535-byte record header is one chunk.       *)
(*    Readers address the file by byte position, never by chunk.           *)
(*  - A file name is the sequence of its characters (ASCII codes).         *)
(*  - A key is the sequence of its bytes; its Display form is the same     *)
(*    string.                                                              *)
(*  - Every file carries `synced`, the number of its chunks known to be on *)
(*    stable storage (what sync_data has covered).                         *)
(***************************************************************************)
EXTENDS Integers, Sequences, FiniteSets, TLC

\* ------------------------------------------------------------------------
\* Bounds of the model
\* ------------------------------------------------------------------------

\* most appends (successful or not) in one behaviour
MaxAppends == 3

\* the clock runs from 0 to MaxClock
MaxClock == 2

\* most engine instances opened in one behaviour
MaxOpens == 2

\* most faults (a kill inside an append, an I/O error, a power failure) in
\* one behaviour
MaxFaults == 1

\* most files that lose a tail in a power failure
MaxLosses == 1

\* the largest retention (seconds) and number of segments per retention
\* period of the configurations that SpecOptions opens the engine with
MaxOption == 2

\* ------------------------------------------------------------------------
\* Program constants
\* ------------------------------------------------------------------------

\* b"NANO-LOG"
NANO_LOG_SIGNATURE == <<78, 65, 78, 79, 45, 76, 79, 71>>

\* b"NANORC"
NANO_REC_SIGNATURE == <<78, 65, 78, 79, 82, 67>>

MAX_HEADER_SIZE == 65535

\* 2^16: the modulus of the `as u16` cast of the header length
U16_MODULUS == 65536

\* a decoded length too large for any file of the model: from_le_bytes of
\* eight bytes whose upper part is not zero.  A reader that decodes it fails
\* to read that many bytes.
HUGE == 1000000000

\* the value of every byte of a record header (headers are opaque to the
\* engine: it writes them and seeks over them)
FILL_BYTE == 2

\* ASCII
CH_DASH == 45
CH_ZERO == 48
LOG_SUFFIX == <<46, 108, 111, 103>>

\* ------------------------------------------------------------------------
\* Sequences and bytes
\* ------------------------------------------------------------------------

\* Bind(v, F): F applied to the value of v.  v is evaluated once, however
\* often F uses its argument.
Bind(v, F(_)) == CHOOSE r \in {F(x) : x \in {v}} : TRUE

\* A chunk is what one write_all call put into a file: the bytes given, or
\* `fill` bytes of value FILL_BYTE; `at` is the byte position it starts at.
Raw(bs) == [bytes |-> bs, fill |-> 0, at |-> 0]
Fill(n) == [bytes |-> <<>>, fill |-> n, at |-> 0]
ChunkLen(c) == Len(c.bytes) + c.fill

Min(a, b) == IF a < b THEN a ELSE b
Max(a, b) == IF a < b THEN b ELSE a

\* Offsets(chunks)[i]: the number of bytes of the first i chunks
Offsets(chunks) ==
    LET off[i \in 0..Len(chunks)] ==
            IF i = 0 THEN 0 ELSE off[i - 1] + ChunkLen(chunks[i])
    IN off

\* Read::read_exact of n bytes at position pos of the file succeeds (it fails
\* with UnexpectedEof when the file is shorter than pos + n)
CanRead(file, pos, n) == pos + n <= file.len

\* the byte at position p of the file, p < file.len
ByteAt(file, p) ==
    Bind(CHOOSE j \in 1..Len(file.data) :
             file.data[j].at <= p /\ p < file.data[j].at + ChunkLen(file.data[j]),
         LAMBDA j :
        IF p - file.data[j].at < Len(file.data[j].bytes)
        THEN file.data[j].bytes[p - file.data[j].at + 1]
        ELSE FILL_BYTE)

\* the n bytes read_exact returns at position pos
ReadExact(file, pos, n) ==
    IF n = 0 THEN <<>>
    ELSE IF \E j \in 1..Len(file.data) :
               /\ file.data[j].at <= pos
               /\ pos + n <= file.data[j].at + Len(file.data[j].bytes)
    THEN \* the bytes lie in one chunk
         Bind(CHOOSE j \in 1..Len(file.data) :
                  /\ file.data[j].at <= pos
                  /\ pos + n <= file.data[j].at + Len(file.data[j].bytes),
              LAMBDA j : SubSeq(file.data[j].bytes, pos - file.data[j].at + 1,
                                pos - file.data[j].at + n))
    ELSE [i \in 1..n |-> ByteAt(file, pos + i - 1)]

\* u64::to_le_bytes for the values of the model (below 2^31)
U64ToLe(x) ==
    <<x % 256, (x \div 256) % 256, (x \div 65536) % 256, (x \div 16777216) % 256,
      0, 0, 0, 0>>

\* u64::from_le_bytes; HUGE stands for every value of 2^31 or more
U64FromLe(b) ==
    IF b[5] = 0 /\ b[6] = 0 /\ b[7] = 0 /\ b[8] = 0 /\ b[4] < 64
    THEN b[1] + 256 * b[2] + 65536 * b[3] + 16777216 * b[4]
    ELSE HUGE

\* u16::to_le_bytes and u16::from_le_bytes
U16ToLe(x) == <<x % 256, (x \div 256) % 256>>
U16FromLe(b) == b[1] + 256 * b[2]

IsPrefix(p, s) == Len(p) <= Len(s) /\ SubSeq(s, 1, Len(p)) = p
IsSuffix(p, s) == Len(p) <= Len(s) /\ SubSeq(s, Len(s) - Len(p) + 1, Len(s)) = p

\* ------------------------------------------------------------------------
\* Keys and their hash
\* ------------------------------------------------------------------------

\* "a"
KeyA == <<97>>

\* "a-3": KeyA, a dash, and the decimal form of KeyA's hash
KeyA3 == <<97, 45, 51>>

\* "!": no character of it survives the file-name filter
KeyBang == <<33>>

\* "crash-test", the key of the writer loop
KeyCrashTest == <<99, 114, 97, 115, 104, 45, 116, 101, 115, 116>>

\* the keys the engine is driven with
Keys == {KeyA, KeyA3}

\* DefaultHasher over the key bytes: deterministic, the same key gives the
\* same hash in every engine instance.  The 64-bit SipHash values are
\* replaced by small ones, distinct for distinct keys of the model.
KeyHash(key) ==
    CASE key = KeyA -> 3
      [] key = KeyA3 -> 5
      [] key = KeyBang -> 7
      [] key = KeyCrashTest -> 11

KeyHashes == {KeyHash(k) : k \in Keys}

\* ------------------------------------------------------------------------
\* File name codec
\* ------------------------------------------------------------------------

IsDigit(c) == c >= 48 /\ c <= 57

\* char::is_alphanumeric on the ASCII range
IsAlphanumeric(c) == IsDigit(c) \/ (c >= 65 /\ c <= 90) \/ (c >= 97 /\ c <= 122)

\* format!("{}", n)
RECURSIVE Decimal(_)
Decimal(n) ==
    IF n < 10 THEN <<CH_ZERO + n>>
    ELSE Decimal(n \div 10) \o <<CH_ZERO + (n % 10)>>

\* format!("{:04}", n): zero-padded to at least four digits
Pad4(n) ==
    LET d == Decimal(n) IN
    IF Len(d) >= 4 THEN d ELSE [i \in 1..(4 - Len(d)) |-> CH_ZERO] \o d

RECURSIVE DigitsValue(_)
DigitsValue(s) ==
    IF s = <<>> THEN 0
    ELSE 10 * DigitsValue(SubSeq(s, 1, Len(s) - 1)) + (s[Len(s)] - CH_ZERO)

\* str::parse::<u64>: -1 stands for Err.  A leading '+' is accepted.
ParseU64(s) ==
    LET body == IF s # <<>> /\ s[1] = 43 THEN Tail(s) ELSE s IN
    IF body # <<>> /\ \A i \in 1..Len(body) : IsDigit(body[i])
    THEN DigitsValue(body)
    ELSE -1

\* str::split('-')
SplitDash(s) ==
    Bind({i \in 1..Len(s) : s[i] = CH_DASH}, LAMBDA dashes :
        LET n == Cardinality(dashes)
            \* the position of the k-th dash; 0 and Len(s) + 1 at the ends
            at(k) == IF k = 0 THEN 0
                     ELSE IF k = n + 1 THEN Len(s) + 1
                     ELSE CHOOSE i \in dashes :
                              Cardinality({j \in dashes : j < i}) = k - 1
        IN [k \in 1..(n + 1) |-> SubSeq(s, at(k - 1) + 1, at(k) - 1)])

NoName == <<-1, -1>>

\* a parser that takes the two components that follow the first one, where
\* the key hash and the sequence number are when the key has no dash
ParseFilenameFromFront(filename) ==
    IF ~IsSuffix(LOG_SUFFIX, filename) THEN NoName
    ELSE Bind(SplitDash(SubSeq(filename, 1, Len(filename) - Len(LOG_SUFFIX))),
              LAMBDA parts :
        IF Len(parts) >= 3
        THEN Bind(<<ParseU64(parts[2]), ParseU64(parts[3])>>, LAMBDA p :
                 IF p[2] >= 0 /\ p[1] >= 0 THEN p ELSE NoName)
        ELSE NoName)

\* Wal::parse_filename: <<key_hash, sequence>>, or NoName for None
parse_filename(filename) ==
    IF ~IsSuffix(LOG_SUFFIX, filename) THEN NoName
    ELSE Bind(SplitDash(SubSeq(filename, 1, Len(filename) - Len(LOG_SUFFIX))),
              LAMBDA parts :
        LET len == Len(parts) IN
        IF len >= 3
        THEN Bind(<<ParseU64(parts[len - 1]), ParseU64(parts[len])>>, LAMBDA p :
                 IF p[2] >= 0 /\ p[1] >= 0 THEN p ELSE NoName)
        ELSE NoName)

\* the sanitized key: the characters [A-Za-z0-9_-] of the key, at most 20
SanitizedKey(key) ==
    LET kept == SelectSeq(key, LAMBDA c : IsAlphanumeric(c) \/ c = 95 \/ c = CH_DASH)
    IN SubSeq(kept, 1, IF Len(kept) < 20 THEN Len(kept) ELSE 20)

\* Wal::generate_filename
generate_filename(key, key_hash, sequence) ==
    SanitizedKey(key) \o <<CH_DASH>> \o Decimal(key_hash) \o <<CH_DASH>>
        \o Pad4(sequence) \o LOG_SUFFIX

\* ------------------------------------------------------------------------
\* State
\* ------------------------------------------------------------------------

VARIABLES
    dir_exists,       \* the WAL directory exists
    files,            \* file name -> [data, synced]: the directory's files
    up,               \* an engine instance (a Wal value) exists
    options,          \* its WalOptions
    active_segments,  \* key_hash -> ActiveSegment
    next_sequence,    \* key_hash -> next sequence number
    now,              \* the wall clock, in seconds
    log,              \* history: the appends that returned Ok, in order
    created,          \* history: <<key_hash, sequence>> of every segment
                      \* creation this engine instance attempted, in order
    snapshot,         \* history: what enumeration returned at the last drop
    hist,             \* history: counters and flags of the behaviour
    last,             \* history: the last call of new or of the append
                      \* path, and its result
    counter,          \* the writer loop's external counter
    pc                \* the writer loop's position

vars == <<dir_exists, files, up, options, active_segments, next_sequence, now,
          log, created, snapshot, hist, last, counter, pc>>

\* The part of the state the engine's operations transform.
World == [dir_exists |-> dir_exists, files |-> files,
          active_segments |-> active_segments, next_sequence |-> next_sequence]

NoHeader == -1
NoFail == 99
NoFile == [data |-> <<>>, len |-> 0, synced |-> 0]

\* the total length of a file in bytes
FileLen(f) == f.len

\* ------------------------------------------------------------------------
\* Writing
\* ------------------------------------------------------------------------

\* The first n write_all calls of `chunks` through the handle h (a File opened
\* in append mode).  Each write lands at the end of the file and leaves the
\* handle's position there; a handle whose file was unlinked writes to an
\* inode no directory entry names.
WriteChunks(fs, h, chunks, n) ==
    Bind(SubSeq(chunks, 1, Min(n, Len(chunks))), LAMBDA written :
    Bind(Offsets(written), LAMBDA off :
        IF written = <<>> THEN [files |-> fs, h |-> h]
        ELSE IF h.unlinked
        THEN [files |-> fs, h |-> [h EXCEPT !.pos = @ + off[Len(written)]]]
        ELSE [files |->
                [fs EXCEPT ![h.name] =
                    [@ EXCEPT !.data = @ \o [i \in 1..Len(written) |->
                                               [written[i] EXCEPT
                                                  !.at = fs[h.name].len + off[i - 1]]],
                              !.len = @ + off[Len(written)]]],
              h |-> [h EXCEPT !.pos = fs[h.name].len + off[Len(written)]]]))

\* a sync that reaches no disk
SyncNothing(fs, h) == fs

\* File::sync_data through the handle
SyncData(fs, h) ==
    IF h.unlinked THEN fs
    ELSE [fs EXCEPT ![h.name].synced = Len(fs[h.name].data)]

NonEmpty(chunks) == SelectSeq(chunks, LAMBDA c : ChunkLen(c) > 0)

\* History carried by the chunks of a file: which write_all call of which
\* header or record frame a chunk is (part of `of`), and the key the header
\* names or the content the frame records.  No operation of the engine reads
\* these fields.
Tag(chunks, kind, content) ==
    [i \in 1..Len(chunks) |->
        [bytes |-> chunks[i].bytes, fill |-> chunks[i].fill, at |-> 0,
         kind |-> kind, part |-> i, of |-> Len(chunks), content |-> content]]

\* Wal::write_file_header: the five write_all calls
write_file_header(key, expiration_timestamp) ==
    Tag(NonEmpty(<< Raw(NANO_LOG_SIGNATURE),
                    Raw(U64ToLe(0)),
                    Raw(U64ToLe(expiration_timestamp)),
                    Raw(U64ToLe(Len(key))),
                    Raw(key) >>), "header", key)

\* the write_all calls of one record frame (append_entry, "Write record")
RecordFrame(header, content) ==
    LET header_len == IF header = NoHeader THEN 0 ELSE header IN
    Tag(NonEmpty(<< Raw(NANO_REC_SIGNATURE),
                    Raw(U16ToLe(header_len % U16_MODULUS)),
                    Fill(header_len),
                    Raw(U64ToLe(Len(content))),
                    Raw(content) >>), "record", content)

\* segment_duration of get_or_create_active_segment
SegmentDuration(opts) ==
    opts.entry_retention \div opts.segments_per_retention_period

\* a counter that is not advanced
SameSequence(sequence) == sequence

\* the sequence number stored for the segment after `sequence`
NextSequence(sequence) == sequence + 1

\* a rotation only after the second of the expiration has passed
RotationLate(active, clock) == clock > active.expiration_timestamp

\* "Check if rotation is needed" of get_or_create_active_segment
RotationNeeded(active, clock) == clock >= active.expiration_timestamp

\* a segment installed as active before its header is written
InstallBeforeHeader(w, opts, clock, key, budget) ==
    Bind(KeyHash(key), LAMBDA key_hash :
    Bind(IF key_hash \in DOMAIN w.active_segments
            /\ RotationNeeded(w.active_segments[key_hash], clock)
         THEN [h \in DOMAIN w.active_segments \ {key_hash}
                 |-> w.active_segments[h]]
         ELSE w.active_segments, LAMBDA rotated :
    IF key_hash \in DOMAIN rotated
    THEN [w |-> [w EXCEPT !.active_segments = rotated], ok |-> TRUE, used |-> 0,
          created |-> <<>>]
    ELSE
      Bind(IF key_hash \in DOMAIN w.next_sequence
           THEN w.next_sequence[key_hash] ELSE 1, LAMBDA sequence :
      Bind([w EXCEPT !.active_segments = rotated,
                     !.next_sequence =
                         [h \in DOMAIN w.next_sequence \cup {key_hash} |->
                            IF h = key_hash THEN NextSequence(sequence)
                            ELSE w.next_sequence[h]]], LAMBDA w1 :
      LET expiration_timestamp == clock + SegmentDuration(opts)
          made == <<key_hash, sequence>>
      IN
      IF ~w.dir_exists \/ budget = 0
      THEN \* OpenOptions::open fails
           [w |-> w1, ok |-> FALSE, used |-> 0, created |-> <<made>>]
      ELSE
        Bind(generate_filename(key, key_hash, sequence), LAMBDA filename :
        Bind(write_file_header(key, expiration_timestamp), LAMBDA hdr :
        Bind(WriteChunks(IF filename \in DOMAIN w.files THEN w.files
                         ELSE [n \in DOMAIN w.files \cup {filename} |->
                                 IF n = filename THEN NoFile ELSE w.files[n]],
                         [name |-> filename,
                          pos |-> 0,
                          unlinked |-> FALSE],
                         hdr, budget - 1), LAMBDA wr :
        IF budget - 1 < Len(hdr)
        THEN [w |-> [w1 EXCEPT
                       !.files = wr.files,
                       !.active_segments =
                           [h \in DOMAIN rotated \cup {key_hash} |->
                              IF h = key_hash
                              THEN [file |-> wr.h,
                                    sequence_number |-> sequence,
                                    expiration_timestamp |-> expiration_timestamp]
                              ELSE rotated[h]]],
              ok |-> FALSE,
              used |-> budget, created |-> <<made>>]
        ELSE [w |-> [w1 EXCEPT
                       !.files = wr.files,
                       !.active_segments =
                           [h \in DOMAIN rotated \cup {key_hash} |->
                              IF h = key_hash
                              THEN [file |-> wr.h,
                                    sequence_number |-> sequence,
                                    expiration_timestamp |-> expiration_timestamp]
                              ELSE rotated[h]]],
              ok |-> TRUE, used |-> Len(hdr) + 1, created |-> <<made>>])))))))

\* Wal::get_or_create_active_segment.  `budget` is the number of I/O calls
\* (open, write_all, sync_data) that succeed before one fails; NoFail when
\* none fails.  Result: the world after the call, ok, the I/O calls used, and
\* the <<key_hash, sequence>> of the segment it tried to create (<<>> if none).
get_or_create_active_segment(w, opts, clock, key, budget) ==
    Bind(KeyHash(key), LAMBDA key_hash :
    Bind(IF key_hash \in DOMAIN w.active_segments
            /\ RotationNeeded(w.active_segments[key_hash], clock)
         THEN [h \in DOMAIN w.active_segments \ {key_hash}
                 |-> w.active_segments[h]]
         ELSE w.active_segments, LAMBDA rotated :
    IF key_hash \in DOMAIN rotated
    THEN [w |-> [w EXCEPT !.active_segments = rotated], ok |-> TRUE, used |-> 0,
          created |-> <<>>]
    ELSE
      Bind(IF key_hash \in DOMAIN w.next_sequence
           THEN w.next_sequence[key_hash] ELSE 1, LAMBDA sequence :
      Bind([w EXCEPT !.active_segments = rotated,
                     !.next_sequence =
                         [h \in DOMAIN w.next_sequence \cup {key_hash} |->
                            IF h = key_hash THEN NextSequence(sequence)
                            ELSE w.next_sequence[h]]], LAMBDA w1 :
      LET expiration_timestamp == clock + SegmentDuration(opts)
          made == <<key_hash, sequence>>
      IN
      IF ~w.dir_exists \/ budget = 0
      THEN \* OpenOptions::open fails
           [w |-> w1, ok |-> FALSE, used |-> 0, created |-> <<made>>]
      ELSE
        Bind(generate_filename(key, key_hash, sequence), LAMBDA filename :
        Bind(write_file_header(key, expiration_timestamp), LAMBDA hdr :
        Bind(WriteChunks(IF filename \in DOMAIN w.files THEN w.files
                         ELSE [n \in DOMAIN w.files \cup {filename} |->
                                 IF n = filename THEN NoFile ELSE w.files[n]],
                         [name |-> filename,
                          pos |-> 0,
                          unlinked |-> FALSE],
                         hdr, budget - 1), LAMBDA wr :
        IF budget - 1 < Len(hdr)
        THEN [w |-> [w1 EXCEPT !.files = wr.files], ok |-> FALSE,
              used |-> budget, created |-> <<made>>]
        ELSE [w |-> [w1 EXCEPT
                       !.files = wr.files,
                       !.active_segments =
                           [h \in DOMAIN rotated \cup {key_hash} |->
                              IF h = key_hash
                              THEN [file |-> wr.h,
                                    sequence_number |-> sequence,
                                    expiration_timestamp |-> expiration_timestamp]
                              ELSE rotated[h]]],
              ok |-> TRUE, used |-> Len(hdr) + 1, created |-> <<made>>])))))))

Ok(ref) == [ok |-> TRUE, ref |-> ref]

\* an offset taken from the start of the file, not from the end of the
\* file header
EntryOffsetAbsolute(current_position, key) == current_position

\* file_header_size of append_entry
FileHeaderSize(key) == 8 + 8 + 8 + 8 + Len(key)

\* entry_offset of append_entry
EntryOffset(current_position, key) == current_position - FileHeaderSize(key)

Err(e) == [ok |-> FALSE, err |-> e]

\* The record write of Wal::append_entry, after get_or_create_active_segment
\* returned g with g.ok.
WriteRecord(g, key, header, content, durable, budget) ==
    Bind(KeyHash(key), LAMBDA key_hash :
    Bind(g.w.active_segments[key_hash], LAMBDA seg :
    Bind(RecordFrame(header, content), LAMBDA frame :
    Bind(WriteChunks(g.w.files, seg.file, frame, budget - g.used), LAMBDA wr :
    Bind([g.w EXCEPT !.files = wr.files,
                     !.active_segments[key_hash].file = wr.h], LAMBDA w2 :
    LET entry_offset == EntryOffset(seg.file.pos, key)
        left == budget - g.used
        n == Min(left, Len(frame))
    IN
    IF n < Len(frame)
    THEN [w |-> w2, res |-> Err("Io"), used |-> g.used + n, created |-> g.created]
    ELSE IF durable
    THEN IF left - n >= 1
         THEN [w |-> [w2 EXCEPT !.files = SyncData(wr.files, wr.h)],
               res |-> Ok(<<key_hash, seg.sequence_number, entry_offset>>),
               used |-> g.used + n + 1, created |-> g.created]
         ELSE [w |-> w2, res |-> Err("Io"), used |-> g.used + n,
               created |-> g.created]
    ELSE [w |-> w2,
          res |-> Ok(<<key_hash, seg.sequence_number, entry_offset>>),
          used |-> g.used + n, created |-> g.created])))))

\* an append_entry that validates the header after it has looked up or
\* created the active segment
AppendEntryLateCheck(w, opts, clock, key, header, content, durable, budget) ==
    Bind(get_or_create_active_segment(w, opts, clock, key, budget), LAMBDA g :
        IF ~g.ok
        THEN [w |-> g.w, res |-> Err("Io"), used |-> g.used,
              created |-> g.created]
        ELSE IF header # NoHeader /\ header > MAX_HEADER_SIZE
        THEN [w |-> g.w, res |-> Err("HeaderTooLarge"), used |-> g.used,
              created |-> g.created]
        ELSE WriteRecord(g, key, header, content, durable, budget))

\* Wal::append_entry.  header is NoHeader or the header's length.  Result:
\* the world after the call, the call's result, the I/O calls used, and the
\* segment creation attempted.
append_entry(w, opts, clock, key, header, content, durable, budget) ==
    IF header # NoHeader /\ header > MAX_HEADER_SIZE
    THEN [w |-> w, res |-> Err("HeaderTooLarge"), used |-> 0, created |-> <<>>]
    ELSE
      Bind(get_or_create_active_segment(w, opts, clock, key, budget), LAMBDA g :
          IF ~g.ok
          THEN [w |-> g.w, res |-> Err("Io"), used |-> g.used,
                created |-> g.created]
          ELSE WriteRecord(g, key, header, content, durable, budget))

\* the number of I/O calls of an append that meets no failure
IoCalls(w, opts, clock, key, header, content, durable) ==
    append_entry(w, opts, clock, key, header, content, durable, NoFail).used

\* ------------------------------------------------------------------------
\* Reading
\* ------------------------------------------------------------------------

\* Wal::skip_file_header on a freshly opened file: the position of the first
\* record, or -1 for Err (the key length cannot be read)
skip_file_header(file) ==
    IF ~CanRead(file, 24, 8) THEN -1
    ELSE 24 + 8 + U64FromLe(ReadExact(file, 24, 8))

\* One record frame read at position pos, as both readers read it:
\* "sig" when the signature differs, "eof" when a read_exact fails, else the
\* content and the position after the frame.
ReadFrame(file, pos) ==
    IF ~CanRead(file, pos, 6) THEN [st |-> "eof"]
    ELSE IF ReadExact(file, pos, 6) # NANO_REC_SIGNATURE THEN [st |-> "sig"]
    ELSE IF ~CanRead(file, pos + 6, 2) THEN [st |-> "eof"]
    ELSE
      Bind(pos + 8 + U16FromLe(ReadExact(file, pos + 6, 2)), LAMBDA at :
        IF ~CanRead(file, at, 8) THEN [st |-> "eof"]
        ELSE
          Bind(U64FromLe(ReadExact(file, at, 8)), LAMBDA content_len :
            IF ~CanRead(file, at + 8, content_len) THEN [st |-> "eof"]
            ELSE [st |-> "ok", content |-> ReadExact(file, at + 8, content_len),
                  next |-> at + 8 + content_len]))

\* A reader that does not tolerate a torn tail: bad when the frames from pos
\* on end in anything but the end of the file.
RECURSIVE StrictFrom(_, _)
StrictFrom(file, pos) ==
    Bind(ReadFrame(file, pos), LAMBDA f :
        IF f.st = "ok"
        THEN Bind(StrictFrom(file, f.next), LAMBDA r :
                 [bad |-> r.bad, records |-> <<f.content>> \o r.records])
        ELSE [bad |-> CanRead(file, pos, 1), records |-> <<>>])

\* ... and that gives up the whole segment then
StrictRecordsLoop(file, pos) ==
    Bind(StrictFrom(file, pos), LAMBDA r : IF r.bad THEN <<>> ELSE r.records)

\* The loop of Wal::read_records_from_segment from position pos on: the
\* contents of the frames it reads before it breaks.
RECURSIVE ReadRecordsLoop(_, _)
ReadRecordsLoop(file, pos) ==
    Bind(ReadFrame(file, pos), LAMBDA f :
        IF f.st # "ok" THEN <<>>
        ELSE <<f.content>> \o ReadRecordsLoop(file, f.next))

\* Wal::read_records_from_segment
read_records_from_segment(file) ==
    Bind(skip_file_header(file), LAMBDA start :
        IF start < 0 THEN [ok |-> FALSE, records |-> <<>>]
        ELSE [ok |-> TRUE, records |-> ReadRecordsLoop(file, start)])

\* every order of the pairs of S, sorted or not
RECURSIVE AnyOrders(_)
AnyOrders(S) ==
    IF S = {} THEN {<<>>}
    ELSE UNION {{<<p>> \o rest : rest \in AnyOrders(S \ {p})} : p \in S}

\* The orders in which sort_by_key (a stable sort by sequence number) can
\* leave the <<sequence, file name>> pairs of S: fs::read_dir yields them in
\* no particular order, so files of equal sequence number come out in either
\* order.
RECURSIVE SortedOrders(_)
SortedOrders(S) ==
    IF S = {} THEN {<<>>}
    ELSE UNION {{<<p>> \o rest : rest \in SortedOrders(S \ {p})} :
                   p \in {q \in S : \A m \in S : q[1] <= m[1]}}

\* the <<sequence, file name>> pairs enumerate_records collects for a key
SegmentFilesOf(w, key) ==
    IF ~w.dir_exists THEN {}
    ELSE Bind(SanitizedKey(key) \o <<CH_DASH>> \o Decimal(KeyHash(key))
                  \o <<CH_DASH>>, LAMBDA prefix :
           {<<parse_filename(n)[2], n>> :
              n \in {m \in DOMAIN w.files :
                       /\ IsPrefix(prefix, m)
                       /\ IsSuffix(LOG_SUFFIX, m)
                       /\ parse_filename(m) # NoName}})

\* the loop of enumerate_records over the sorted segment files
RECURSIVE ConcatRecords(_, _)
ConcatRecords(fs, order) ==
    IF order = <<>> THEN <<>>
    ELSE Bind(read_records_from_segment(fs[Head(order)[2]]), LAMBDA r :
             IF r.ok THEN r.records ELSE <<>>)
         \o ConcatRecords(fs, Tail(order))

\* Wal::enumerate_records: the set of record sequences the call can return
\* (one for each order the directory can be listed in)
enumerate_records(w, key) ==
    Bind(SegmentFilesOf(w, key), LAMBDA segment_files :
        {ConcatRecords(w.files, order) : order \in SortedOrders(segment_files)})

\* Wal::read_key_from_file: <<key>>, or <<>> for Err
read_key_from_file(file) ==
    IF ~CanRead(file, 0, 8) THEN <<>>
    ELSE IF ReadExact(file, 0, 8) # NANO_LOG_SIGNATURE THEN <<>>
    ELSE IF ~CanRead(file, 24, 8) THEN <<>>
    ELSE Bind(U64FromLe(ReadExact(file, 24, 8)), LAMBDA key_len :
             IF ~CanRead(file, 32, key_len) THEN <<>>
             ELSE <<ReadExact(file, 32, key_len)>>)

\* an enumeration that gives up at the first file whose key cannot be read
EnumerateKeysStrict(w) ==
    IF ~w.dir_exists THEN {}
    ELSE LET read == {read_key_from_file(w.files[n]) :
                        n \in {m \in DOMAIN w.files : IsSuffix(LOG_SUFFIX, m)}}
         IN IF <<>> \in read THEN {} ELSE {r[1] : r \in read}

\* Wal::enumerate_keys: the set of keys it yields
enumerate_keys(w) ==
    IF ~w.dir_exists THEN {}
    ELSE LET read == {read_key_from_file(w.files[n]) :
                        n \in {m \in DOMAIN w.files : IsSuffix(LOG_SUFFIX, m)}}
         IN {r[1] : r \in read \ {<<>>}}

\* The length that `vec![0u8; content_len as usize]` allocates when a frame
\* is read at position pos (both readers allocate before they read the
\* content), or -1 when the reader stops before it allocates.
FrameAllocation(file, pos) ==
    IF ~CanRead(file, pos, 6) THEN -1
    ELSE IF ReadExact(file, pos, 6) # NANO_REC_SIGNATURE THEN -1
    ELSE IF ~CanRead(file, pos + 6, 2) THEN -1
    ELSE
      Bind(pos + 8 + U16FromLe(ReadExact(file, pos + 6, 2)), LAMBDA at :
        IF ~CanRead(file, at, 8) THEN -1
        ELSE U64FromLe(ReadExact(file, at, 8)))

\* What the allocation of n bytes does: a length decoded from bytes that are
\* no length (HUGE) panics with a capacity overflow or aborts the process
\* when the allocator refuses it; where the allocator grants it, the read
\* that follows fails.
VecOutcomes(n) == IF n >= HUGE THEN {"allocated", "aborted"} ELSE {"allocated"}

\* the allocations of the loop of Wal::read_records_from_segment from
\* position pos on, and the number of its iterations
RECURSIVE ScanFrom(_, _)
ScanFrom(file, pos) ==
    Bind(ReadFrame(file, pos), LAMBDA f :
    Bind(FrameAllocation(file, pos), LAMBDA n :
        IF f.st # "ok" THEN [allocated |-> {n} \ {-1}, iterations |-> 1]
        ELSE Bind(ScanFrom(file, f.next), LAMBDA r :
                 [allocated |-> r.allocated \cup {n},
                  iterations |-> r.iterations + 1])))

\* how a call of Wal::read_records_from_segment on the file can end
ScanOutcomes(file) ==
    Bind(skip_file_header(file), LAMBDA start :
        IF start < 0 THEN {"returned"}
        ELSE IF \E n \in ScanFrom(file, start).allocated :
                   "aborted" \in VecOutcomes(n)
        THEN {"returned", "aborted"}
        ELSE {"returned"})

\* how a call of Wal::read_entry_from_file on the file can end
ReadEntryOutcomes(file, offset) ==
    Bind(skip_file_header(file), LAMBDA start :
        IF start < 0 THEN {"returned"}
        ELSE IF "aborted" \in VecOutcomes(FrameAllocation(file, start + offset))
        THEN {"returned", "aborted"}
        ELSE {"returned"})

ReadOk(content) == [ok |-> TRUE, content |-> content]

\* Wal::read_entry_from_file
read_entry_from_file(file, offset) ==
    Bind(skip_file_header(file), LAMBDA start :
        IF start < 0 THEN Err("Io")
        ELSE Bind(ReadFrame(file, start + offset), LAMBDA f :
                 IF f.st = "eof" THEN Err("Io")
                 ELSE IF f.st = "sig" THEN Err("CorruptedData")
                 ELSE ReadOk(f.content)))

\* a file name parsed to the wrong segment: only the sequence number is
\* compared
SequenceMatches(parsed, entry_ref) == parsed[2] = entry_ref[2]

\* a file name parsed to the wrong segment: only the key_hash is compared
HashMatches(parsed, entry_ref) == parsed[1] = entry_ref[1]

\* the comparison of read_entry_at: the parsed file name against the EntryRef
RefMatches(parsed, entry_ref) ==
    parsed[1] = entry_ref[1] /\ parsed[2] = entry_ref[2]

\* a lookup that takes the first file in directory order with the sequence
\* number of the EntryRef, whatever its key
ReadEntryAtAnyKey(w, entry_ref) ==
    LET matching == IF ~w.dir_exists THEN {}
                    ELSE {n \in DOMAIN w.files :
                            \E parsed \in {parse_filename(n)} \ {NoName} :
                                parsed[2] = entry_ref[2]}
    IN IF matching = {} THEN {Err("EntryNotFound")}
       ELSE {read_entry_from_file(w.files[n], entry_ref[3]) : n \in matching}

\* Wal::read_entry_at: the set of results the call can return (the first
\* matching file in directory order decides)
read_entry_at(w, entry_ref) ==
    LET matching == IF ~w.dir_exists THEN {}
                    ELSE {n \in DOMAIN w.files :
                            \E parsed \in {parse_filename(n)} \ {NoName} :
                                RefMatches(parsed, entry_ref)}
    IN IF matching = {} THEN {Err("EntryNotFound")}
       ELSE {read_entry_from_file(w.files[n], entry_ref[3]) : n \in matching}

\* ------------------------------------------------------------------------
\* Open, maintenance
\* ------------------------------------------------------------------------

EmptyMap == [x \in {} |-> 0]

\* a validation that refuses a segment duration of zero seconds
ValidateDuration(opts) ==
    IF opts.segments_per_retention_period = 0 THEN Err("InvalidConfig")
    ELSE IF opts.entry_retention \div opts.segments_per_retention_period = 0
    THEN Err("InvalidConfig")
    ELSE [ok |-> TRUE]

\* WalOptions::validate
validate(opts) ==
    IF opts.entry_retention = 0 THEN Err("InvalidConfig")
    ELSE IF opts.segments_per_retention_period = 0 THEN Err("InvalidConfig")
    ELSE [ok |-> TRUE]

\* a scan that finds nothing: every key starts again at sequence number 1
ScanNothing(fs) == EmptyMap

\* a scan that stores the highest sequence number itself, not its successor
ScanHighest(fs) ==
    Bind({parse_filename(n) : n \in {m \in DOMAIN fs : IsSuffix(LOG_SUFFIX, m)}}
             \ {NoName}, LAMBDA parsed :
        [h \in {p[1] : p \in parsed} |->
           CHOOSE s \in {p[2] : p \in {q \in parsed : q[1] = h}} :
               \A t \in {p[2] : p \in {q \in parsed : q[1] = h}} : t <= s])

\* Wal::scan_existing_files: the next_sequence table it builds
scan_existing_files(fs) ==
    Bind({parse_filename(n) : n \in {m \in DOMAIN fs : IsSuffix(LOG_SUFFIX, m)}}
             \ {NoName}, LAMBDA parsed :
        [h \in {p[1] : p \in parsed} |->
           (CHOOSE s \in {p[2] : p \in {q \in parsed : q[1] = h}} :
               \A t \in {p[2] : p \in {q \in parsed : q[1] = h}} : t <= s) + 1])

\* the expiration timestamp Wal::compact reads from a file, or -1 when the
\* file is no segment (signature or header unreadable)
ExpirationOf(file) ==
    IF ~CanRead(file, 0, 8) THEN -1
    ELSE IF ReadExact(file, 0, 8) # NANO_LOG_SIGNATURE THEN -1
    ELSE IF ~CanRead(file, 8, 8) \/ ~CanRead(file, 16, 8) THEN -1
    ELSE U64FromLe(ReadExact(file, 16, 8))

\* a compaction that keeps a file one second longer
ExpiredLate(w, clock) ==
    IF ~w.dir_exists THEN {}
    ELSE {n \in DOMAIN w.files :
            /\ IsSuffix(LOG_SUFFIX, n)
            /\ \E e \in {ExpirationOf(w.files[n])} : e >= 0 /\ clock > e + 1}

\* the files a compaction removes that also takes a file expiring at `clock`
ExpiredAtNow(w, clock) ==
    IF ~w.dir_exists THEN {}
    ELSE {n \in DOMAIN w.files :
            /\ IsSuffix(LOG_SUFFIX, n)
            /\ \E e \in {ExpirationOf(w.files[n])} : e >= 0 /\ clock >= e}

\* the files Wal::compact removes at clock time `clock`
Expired(w, clock) ==
    IF ~w.dir_exists THEN {}
    ELSE {n \in DOMAIN w.files :
            /\ IsSuffix(LOG_SUFFIX, n)
            /\ \E e \in {ExpirationOf(w.files[n])} : e >= 0 /\ clock > e}

\* A handle whose file is removed keeps its inode, which no name reaches.
Unlink(segs, names) ==
    [h \in DOMAIN segs |->
       IF segs[h].file.name \in names
       THEN [segs[h] EXCEPT !.file.unlinked = TRUE]
       ELSE segs[h]]

\* a compaction that spares the files of the active segments
CompactKeepActive(w, clock) ==
    Bind(Expired(w, clock) \ {w.active_segments[h].file.name :
                                 h \in DOMAIN w.active_segments}, LAMBDA gone :
        [w EXCEPT !.files = [n \in DOMAIN w.files \ gone |-> w.files[n]]])

\* a compaction that returns after the first file it removes
CompactOne(w, clock) ==
    Bind(Expired(w, clock), LAMBDA expired :
    Bind(IF expired = {} THEN {} ELSE {CHOOSE n \in expired : TRUE},
         LAMBDA gone :
        [w EXCEPT !.files = [n \in DOMAIN w.files \ gone |-> w.files[n]],
                  !.active_segments = Unlink(w.active_segments, gone)]))

\* Wal::compact
compact(w, clock) ==
    Bind(Expired(w, clock), LAMBDA gone :
        [w EXCEPT !.files = [n \in DOMAIN w.files \ gone |-> w.files[n]],
                  !.active_segments = Unlink(w.active_segments, gone)])

\* Wal::sync
sync(w) ==
    [w EXCEPT !.files =
        [n \in DOMAIN w.files |->
           IF \E h \in DOMAIN w.active_segments :
                 /\ w.active_segments[h].file.name = n
                 /\ ~w.active_segments[h].file.unlinked
           THEN [w.files[n] EXCEPT !.synced = Len(w.files[n].data)]
           ELSE w.files[n]]]

\* a count of the keys the engine has a next sequence number for
SequenceCount(w) == Cardinality(DOMAIN w.next_sequence)

\* Wal::active_segment_count
active_segment_count(w) == Cardinality(DOMAIN w.active_segments)

\* Wal::shutdown: the handles are dropped first, then the directory is
\* removed (an error when there is none)
shutdown(w) ==
    [w EXCEPT !.active_segments = EmptyMap, !.files = EmptyMap,
              !.dir_exists = FALSE]

\* a log_entry that leaves the record to the operating system
LogEntryNotDurable(w, opts, clock, key, header, content, budget) ==
    append_entry(w, opts, clock, key, header, content, FALSE, budget)

\* a shutdown that keeps the handles when the removal fails
ShutdownKeepingHandles(w, gone) ==
    [w EXCEPT !.files = [n \in DOMAIN w.files \ gone |-> w.files[n]],
              !.active_segments = Unlink(w.active_segments, gone)]

\* Wal::shutdown when fs::remove_dir_all returns an error after it has
\* removed the files `gone`: the handles are dropped, the directory stays
shutdown_io_error(w, gone) ==
    [w EXCEPT !.active_segments = EmptyMap,
              !.files = [n \in DOMAIN w.files \ gone |-> w.files[n]]]

\* Wal::log_entry
log_entry(w, opts, clock, key, header, content, budget) ==
    append_entry(w, opts, clock, key, header, content, TRUE, budget)

\* Wal::append_batch.  entries is a sequence of <<key, header, content>>;
\* clocks[i] is the clock at the i-th append_entry of the loop.  Result: the
\* world after the call, Ok with the EntryRefs or the first error, the
\* EntryRefs of the entries written, and the segment creations attempted.
RECURSIVE BatchLoop(_, _, _, _, _, _)
BatchLoop(w, opts, clocks, entries, refs, made) ==
    IF entries = <<>> THEN [w |-> w, ok |-> TRUE, refs |-> refs, created |-> made]
    ELSE Bind(append_entry(w, opts, Head(clocks), Head(entries)[1],
                           Head(entries)[2], Head(entries)[3], FALSE, NoFail),
              LAMBDA r :
           IF r.res.ok
           THEN Bind(<<r.w, Append(refs, r.res.ref), made \o r.created>>, LAMBDA a :
                    BatchLoop(a[1], opts, Tail(clocks), Tail(entries), a[2], a[3]))
           ELSE [w |-> r.w, ok |-> FALSE, err |-> r.res.err, refs |-> refs,
                 created |-> made \o r.created])

append_batch(w, opts, clocks, entries, durable) ==
    Bind(BatchLoop(w, opts, clocks, entries, <<>>, <<>>), LAMBDA b :
        IF ~b.ok
        THEN [w |-> b.w, res |-> Err(b.err), written |-> b.refs,
              created |-> b.created]
        ELSE [w |-> IF durable THEN sync(b.w) ELSE b.w,
              res |-> [ok |-> TRUE, refs |-> b.refs],
              written |-> b.refs, created |-> b.created])

\* ------------------------------------------------------------------------
\* Inputs of the model
\* ------------------------------------------------------------------------

\* the WalOptions an engine is opened with: a segment duration of one
\* second, and the two invalid configurations
OptionChoices ==
    { [entry_retention |-> 1, segments_per_retention_period |-> 1],
      [entry_retention |-> 0, segments_per_retention_period |-> 1],
      [entry_retention |-> 1, segments_per_retention_period |-> 0] }

\* every WalOptions with a retention of 0 .. MaxOption seconds and 0 ..
\* MaxOption segments per retention period
OptionRange ==
    { [entry_retention |-> r, segments_per_retention_period |-> n] :
        r \in 0..MaxOption, n \in 0..MaxOption }

\* append_entry: no header with a one-byte content, durable; the largest
\* header with an empty content, not durable; or a header one byte larger
InputChoices ==
    { [header |-> NoHeader, empty |-> FALSE, durable |-> TRUE],
      [header |-> MAX_HEADER_SIZE, empty |-> TRUE, durable |-> FALSE],
      [header |-> MAX_HEADER_SIZE + 1, empty |-> TRUE, durable |-> TRUE] }

\* log_entry: an empty header with a one-byte content
LogChoices ==
    { [header |-> 0, empty |-> FALSE, durable |-> TRUE] }

\* append_batch of two entries: their keys, the header of the second entry
\* (absent, or one byte more than the maximum), durable, and the seconds that
\* pass between the two entries
BatchChoices ==
    { [k1 |-> KeyA, first |-> NoHeader, k2 |-> KeyA, header |-> NoHeader,
       durable |-> TRUE, tick |-> 1],
      [k1 |-> KeyA3, first |-> NoHeader, k2 |-> KeyA, header |-> NoHeader,
       durable |-> FALSE, tick |-> 0],
      [k1 |-> KeyA, first |-> NoHeader, k2 |-> KeyA3,
       header |-> MAX_HEADER_SIZE + 1, durable |-> TRUE, tick |-> 0] }

\* more batches that fail: at the first entry, and at the second entry
\* after an entry of the other key
FailingBatchChoices ==
    { [k1 |-> KeyA, first |-> MAX_HEADER_SIZE + 1, k2 |-> KeyA,
       header |-> NoHeader, durable |-> TRUE, tick |-> 0],
      [k1 |-> KeyA3, first |-> NoHeader, k2 |-> KeyA,
       header |-> MAX_HEADER_SIZE + 1, durable |-> FALSE, tick |-> 0] }

\* the appends that meet a fault: one-byte contents, durable or not
FaultChoices ==
    { [header |-> NoHeader, empty |-> FALSE, durable |-> TRUE],
      [header |-> NoHeader, empty |-> FALSE, durable |-> FALSE] }

\* the content of the next append: a fresh one-byte value, or empty
ContentOf(inp, n) == IF inp.empty THEN <<>> ELSE <<n>>

\* "record-<n>", the content the writer loop appends
RecordContent(n) == <<114, 101, 99, 111, 114, 100, 45>> \o Decimal(n)

\* ------------------------------------------------------------------------
\* Actions
\* ------------------------------------------------------------------------

SetWorld(w) ==
    /\ dir_exists' = w.dir_exists
    /\ files' = w.files
    /\ active_segments' = w.active_segments
    /\ next_sequence' = w.next_sequence

\* the name of the segment file an EntryRef of `key` points into
FileOf(key, ref) == generate_filename(key, ref[1], ref[2])

\* A history entry for an append that returned Ok(ref), in the world w it
\* left.  gone: the segment file has been deleted (or was, when the record
\* went through a handle to a deleted file).
Entry(w, key, header, content, durable, ref) ==
    [key |-> key, header |-> header, content |-> content, durable |-> durable,
     ref |-> ref, inst |-> hist.opens,
     exp |-> IF FileOf(key, ref) \in DOMAIN w.files
             THEN ExpirationOf(w.files[FileOf(key, ref)]) ELSE -1,
     gone |-> FileOf(key, ref) \notin DOMAIN w.files
                 \/ w.active_segments[ref[1]].file.unlinked]

\* the history after the files `names` were deleted
MarkGone(entries, names) ==
    [i \in DOMAIN entries |->
        IF FileOf(entries[i].key, entries[i].ref) \in names
        THEN [entries[i] EXCEPT !.gone = TRUE]
        ELSE entries[i]]

\* The options of the engines opened under faults and by the writer loop: a
\* segment lasts one unit of the clock.  Also the value of `options` while no
\* engine exists.
DefaultOptions == [entry_retention |-> 1, segments_per_retention_period |-> 1]

Init ==
    /\ dir_exists = FALSE
    /\ files = EmptyMap
    /\ up = FALSE
    /\ options = DefaultOptions
    /\ active_segments = EmptyMap
    /\ next_sequence = EmptyMap
    /\ now = 0
    /\ log = <<>>
    /\ created = <<>>
    /\ snapshot = [records |-> [k \in Keys |-> {<<>>}], keys |-> {}, at |-> 0]
    /\ hist = [appends |-> 0, opens |-> 0, removed |-> FALSE, faulted |-> FALSE,
               crashed |-> FALSE, power |-> "never", faults |-> 0, losses |-> 0,
               names_at_open |-> {}, keys |-> {}, shut |-> FALSE]
    /\ last = [op |-> "init"]
    /\ counter = 0
    /\ pc = "idle"

\* an open that resumes the newest segment of every key it finds
OpenedResuming(opts) ==
    /\ dir_exists' = TRUE
    /\ up' = TRUE
    /\ options' = opts
    /\ next_sequence' = scan_existing_files(files)
    /\ active_segments' =
          [h \in DOMAIN next_sequence' |->
             [file |-> [name |-> CHOOSE n \in DOMAIN files :
                                   parse_filename(n) = <<h, next_sequence'[h] - 1>>,
                        pos |-> 0, unlinked |-> FALSE],
              sequence_number |-> next_sequence'[h] - 1,
              expiration_timestamp |-> now + SegmentDuration(opts)]]
    /\ created' = <<>>
    /\ hist' = [hist EXCEPT !.opens = @ + 1, !.names_at_open = DOMAIN files,
                            !.power = IF @ = "off" THEN "past" ELSE @,
                            !.keys = {}, !.shut = FALSE]
    /\ last' = [op |-> "new", opts |-> opts, res |-> [ok |-> TRUE]]
    /\ UNCHANGED <<files, now, log, snapshot, counter>>

\* an open that cuts an incomplete header or frame off the end of every file
OpenedTruncating(opts) ==
    /\ dir_exists' = TRUE
    /\ up' = TRUE
    /\ options' = opts
    /\ active_segments' = EmptyMap
    /\ next_sequence' = scan_existing_files(files)
    /\ files' = [n \in DOMAIN files |->
                   LET d == files[n].data
                       whole == IF d = <<>> \/ d[Len(d)].part = d[Len(d)].of
                                THEN Len(d) ELSE Len(d) - d[Len(d)].part
                   IN  IF whole = Len(d) THEN files[n]
                       ELSE [data |-> SubSeq(d, 1, whole),
                             len |-> d[whole + 1].at,
                             synced |-> Min(files[n].synced, whole)]]
    /\ created' = <<>>
    /\ hist' = [hist EXCEPT !.opens = @ + 1, !.names_at_open = DOMAIN files,
                            !.power = IF @ = "off" THEN "past" ELSE @,
                            !.keys = {}, !.shut = FALSE]
    /\ last' = [op |-> "new", opts |-> opts, res |-> [ok |-> TRUE]]
    /\ UNCHANGED <<now, log, snapshot, counter>>

\* the effect of a successful Wal::new
Opened(opts) ==
    /\ dir_exists' = TRUE
    /\ up' = TRUE
    /\ options' = opts
    /\ active_segments' = EmptyMap
    /\ next_sequence' = scan_existing_files(files)
    /\ created' = <<>>
    /\ hist' = [hist EXCEPT !.opens = @ + 1, !.names_at_open = DOMAIN files,
                            !.power = IF @ = "off" THEN "past" ELSE @,
                            !.keys = {}, !.shut = FALSE]
    /\ last' = [op |-> "new", opts |-> opts, res |-> [ok |-> TRUE]]
    /\ UNCHANGED <<files, now, log, snapshot, counter>>

\* Wal::new
Open(opts) ==
    /\ ~up
    /\ hist.opens < MaxOpens
    /\ IF ~validate(opts).ok
       THEN /\ last' = [op |-> "new", opts |-> opts, res |-> validate(opts)]
            /\ UNCHANGED <<dir_exists, files, up, options, active_segments,
                           next_sequence, now, log, created, snapshot, hist,
                           counter, pc>>
       ELSE Opened(opts) /\ UNCHANGED pc

\* the keys an append that returned res has appended to
Touched(res, key) == IF res.ok THEN {key} ELSE {}

\* the history after append_entry or log_entry returned r
Appended(r, key, header, content, durable) ==
    /\ SetWorld(r.w)
    /\ log' = IF r.res.ok
              THEN Append(log, Entry(r.w, key, header, content, durable, r.res.ref))
              ELSE log
    /\ created' = created \o r.created
    /\ last' = [op |-> "append", key |-> key, header |-> header, res |-> r.res]

\* append_entry on the engine
AppendEntry(key, inp) ==
    /\ up
    /\ hist.appends < MaxAppends
    /\ \E content \in {ContentOf(inp, hist.appends + 1)} :
       \E r \in {append_entry(World, options, now, key, inp.header, content,
                              inp.durable, NoFail)} :
          /\ Appended(r, key, inp.header, content, inp.durable)
          /\ hist' = [hist EXCEPT !.appends = @ + 1,
                                  !.keys = @ \cup Touched(r.res, key)]
    /\ UNCHANGED <<up, options, now, snapshot, counter, pc>>

\* log_entry on the engine
LogEntry(key, inp) ==
    /\ up
    /\ hist.appends < MaxAppends
    /\ \E content \in {ContentOf(inp, hist.appends + 1)} :
       \E r \in {log_entry(World, options, now, key, inp.header, content, NoFail)} :
          /\ Appended(r, key, inp.header, content, TRUE)
          /\ hist' = [hist EXCEPT !.appends = @ + 1,
                                  !.keys = @ \cup Touched(r.res, key)]
    /\ UNCHANGED <<up, options, now, snapshot, counter, pc>>

\* append_batch on the engine, of two entries with the headers `first` and
\* `header`; the clock may advance by `tick` seconds between the two
AppendBatch(k1, first, k2, header, durable, tick) ==
    /\ up
    /\ hist.appends + 2 <= MaxAppends
    /\ now + tick <= MaxClock
    /\ \E entries \in {<< <<k1, first, <<hist.appends + 1>> >>,
                          <<k2, header, <<hist.appends + 2>> >> >>} :
       \E r \in {append_batch(World, options, <<now, now + tick>>, entries,
                              durable)} :
          /\ SetWorld(r.w)
          /\ log' = IF r.res.ok
                    THEN log \o [i \in 1..Len(r.written) |->
                                   Entry(r.w, entries[i][1], entries[i][2],
                                         entries[i][3], durable, r.written[i])]
                    ELSE log
          /\ created' = created \o r.created
          /\ hist' = [hist EXCEPT !.appends = @ + 2,
                                  !.faulted = @ \/ (~r.res.ok /\ r.written # <<>>),
                                  !.keys = @ \cup {entries[i][1] :
                                                     i \in 1..Len(r.written)}]
          /\ last' = [op |-> "append_batch", entries |-> entries, res |-> r.res,
                      durable |-> durable]
    /\ now' = now + tick
    /\ UNCHANGED <<up, options, snapshot, counter, pc>>

\* the wall clock advances
Tick ==
    /\ now < MaxClock
    /\ now' = now + 1
    /\ UNCHANGED <<dir_exists, files, up, options, active_segments, next_sequence,
                   log, created, snapshot, hist, last, counter, pc>>

\* what is left when the process that holds the engine ends
EngineGone ==
    /\ up' = FALSE
    /\ options' = DefaultOptions
    /\ active_segments' = EmptyMap
    /\ next_sequence' = EmptyMap

\* the engine goes away without shutdown: the Wal value is dropped, or its
\* process is terminated between two calls
Drop ==
    /\ up
    /\ EngineGone
    /\ snapshot' = [records |-> [k \in Keys |-> enumerate_records(World, k)],
                    keys |-> enumerate_keys(World), at |-> hist.opens]
    /\ last' = [op |-> "drop"]
    /\ UNCHANGED <<dir_exists, files, now, log, created, hist, counter, pc>>

\* compact on the engine
Compact ==
    /\ up
    /\ \E gone \in {Expired(World, now)} :
          /\ SetWorld(compact(World, now))
          /\ log' = MarkGone(log, gone)
          /\ hist' = [hist EXCEPT !.removed = @ \/ gone # {}]
    /\ last' = [op |-> "compact", res |-> [ok |-> TRUE], at |-> now]
    /\ UNCHANGED <<up, options, now, created, snapshot, counter, pc>>

\* sync on the engine
Sync ==
    /\ up
    /\ SetWorld(sync(World))
    /\ UNCHANGED <<up, options, now, log, created, snapshot, hist, last, counter,
                   pc>>

\* shutdown on the engine, which stays in the caller's hands (&mut self)
Shutdown ==
    /\ up
    /\ SetWorld(shutdown(World))
    /\ log' = MarkGone(log, DOMAIN files)
    /\ hist' = [hist EXCEPT !.removed = TRUE, !.shut = TRUE]
    /\ last' = [op |-> "shutdown",
                res |-> IF dir_exists THEN [ok |-> TRUE] ELSE Err("Io")]
    /\ UNCHANGED <<up, options, now, created, snapshot, counter, pc>>

\* shutdown on the engine when the removal of the directory fails, after no
\* file or after one file was removed
ShutdownIoError(gone) ==
    /\ up
    /\ dir_exists
    /\ hist.faults < MaxFaults
    /\ gone \subseteq DOMAIN files
    /\ Cardinality(gone) <= 1
    /\ SetWorld(shutdown_io_error(World, gone))
    /\ log' = MarkGone(log, gone)
    /\ hist' = [hist EXCEPT !.removed = @ \/ gone # {}, !.shut = TRUE,
                            !.faulted = TRUE, !.faults = @ + 1]
    /\ last' = [op |-> "shutdown", res |-> Err("Io")]
    /\ UNCHANGED <<up, options, now, created, snapshot, counter, pc>>

\* The process is killed during an append_entry, after `b` of the call's I/O
\* calls (open, write_all, sync_data) have taken effect; with b the number of
\* all of them, it is killed before the call returns.
AppendCrash(key, inp) ==
    /\ up
    /\ hist.appends < MaxAppends
    /\ hist.faults < MaxFaults
    /\ \E content \in {ContentOf(inp, hist.appends + 1)} :
       \E b \in 0..IoCalls(World, options, now, key, inp.header, content,
                           inp.durable) :
       \E r \in {append_entry(World, options, now, key, inp.header, content,
                              inp.durable, b)} :
          /\ dir_exists' = r.w.dir_exists
          /\ files' = r.w.files
          /\ created' = created \o r.created
    /\ EngineGone
    /\ hist' = [hist EXCEPT !.appends = @ + 1, !.crashed = TRUE, !.faults = @ + 1]
    /\ last' = [op |-> "crash"]
    /\ UNCHANGED <<now, log, snapshot, counter, pc>>

\* An append_entry whose (b + 1)-th I/O call fails: the call returns the
\* error and the engine lives on.
AppendIoError(key, inp) ==
    /\ up
    /\ hist.appends < MaxAppends
    /\ hist.faults < MaxFaults
    /\ \E content \in {ContentOf(inp, hist.appends + 1)} :
       \E b \in 0..(IoCalls(World, options, now, key, inp.header, content,
                            inp.durable) - 1) :
       \E r \in {append_entry(World, options, now, key, inp.header, content,
                              inp.durable, b)} :
          /\ Appended(r, key, inp.header, content, inp.durable)
          /\ hist' = [hist EXCEPT !.appends = @ + 1, !.faulted = TRUE,
                                  !.faults = @ + 1,
                                  !.keys = @ \cup Touched(r.res, key)]
    /\ UNCHANGED <<up, options, now, snapshot, counter, pc>>

\* The machine loses power: the engine is gone, and what was not synced is
\* about to be lost (Lose).
PowerFail ==
    /\ hist.power = "never"
    /\ hist.faults < MaxFaults
    /\ dir_exists
    /\ EngineGone
    /\ hist' = [hist EXCEPT !.power = "off", !.faults = @ + 1]
    /\ last' = [op |-> "power"]
    /\ UNCHANGED <<dir_exists, files, now, log, created, snapshot, counter, pc>>

\* the one key the engine is driven with under faults
FaultKeys == {KeyA}

\* After the power failure file n keeps its first k chunks, of which the
\* synced ones are a part; what follows them is cut off, or reads as zeros.
Lose(n, k, zeros) ==
    /\ hist.power = "off"
    /\ hist.losses < MaxLosses
    /\ ~up
    /\ files[n].synced <= k
    /\ k < Len(files[n].data)
    /\ \E end \in {IF k = 0 THEN 0
                    ELSE files[n].data[k].at + ChunkLen(files[n].data[k])} :
          files' = [files EXCEPT ![n] =
              IF zeros
              THEN [data |-> Append(SubSeq(@.data, 1, k),
                                    [bytes |-> [i \in 1..(@.len - end) |-> 0] \o <<>>,
                                     fill |-> 0, at |-> end, kind |-> "junk",
                                     part |-> 1, of |-> 1, content |-> <<>>]),
                    len |-> @.len, synced |-> k + 1]
              ELSE [data |-> SubSeq(@.data, 1, k), len |-> end, synced |-> k]]
    /\ hist' = [hist EXCEPT !.losses = @ + 1]
    /\ UNCHANGED <<dir_exists, up, options, active_segments, next_sequence, now,
                   log, created, snapshot, last, counter, pc>>

Next ==
    \/ \E opts \in OptionChoices : Open(opts)
    \/ \E key \in Keys, inp \in InputChoices : AppendEntry(key, inp)
    \/ \E key \in Keys, inp \in LogChoices : LogEntry(key, inp)
    \/ \E b \in BatchChoices :
          AppendBatch(b.k1, b.first, b.k2, b.header, b.durable, b.tick)
    \/ Tick
    \/ Drop
    \/ Compact
    \/ Shutdown

Spec == Init /\ [][Next]_vars

\* The engine under faults: a process killed inside an append, I/O errors,
\* power failures.
NextFault ==
    \/ \E opts \in {DefaultOptions} : Open(opts)
    \/ \E key \in FaultKeys, inp \in FaultChoices : AppendEntry(key, inp)
    \/ \E key \in FaultKeys, inp \in FaultChoices : AppendCrash(key, inp)
    \/ \E key \in FaultKeys, inp \in FaultChoices : AppendIoError(key, inp)
    \/ PowerFail
    \/ \E n \in DOMAIN files : \E k \in 0..Len(files[n].data), zeros \in BOOLEAN :
          Lose(n, k, zeros)
    \/ Tick
    \/ Drop
    \/ Compact
    \/ Sync

SpecFault == Init /\ [][NextFault]_vars

\* The writer loop of the crash tests: a worker opens the engine and appends
\* record-<counter> with durable = true, adding one to the shared counter
\* after each append that returned Ok; it is killed at any point, and then a
\* fresh engine is opened on the directory.  (The tests drop the JoinHandle,
\* which detaches the worker and leaves it running; the worker is killed
\* here, which is what the tests mean to simulate.)
WriterOpen ==
    /\ pc = "idle"
    /\ ~up
    /\ Opened(DefaultOptions)
    /\ pc' = "loop"

\* the append of one turn of the loop, which returns Ok
WriterAppend ==
    /\ pc = "loop"
    /\ counter < MaxAppends
    /\ \E content \in {RecordContent(counter)} :
       \E r \in {append_entry(World, options, now, KeyCrashTest, NoHeader,
                              content, TRUE, NoFail)} :
          /\ Appended(r, KeyCrashTest, NoHeader, content, TRUE)
          /\ hist' = [hist EXCEPT !.appends = @ + 1,
                                  !.keys = @ \cup Touched(r.res, KeyCrashTest)]
    /\ pc' = "appended"
    /\ UNCHANGED <<up, options, now, snapshot, counter>>

\* counter.fetch_add(1) after the append returned Ok
WriterIncrement ==
    /\ pc = "appended"
    /\ counter' = (counter + 1) % U16_MODULUS
    /\ pc' = "loop"
    /\ UNCHANGED <<dir_exists, files, up, options, active_segments,
                   next_sequence, now, log, created, snapshot, hist, last>>

\* the worker is killed between two I/O calls of an append, after b of them
WriterKilledInAppend ==
    /\ pc = "loop"
    /\ counter < MaxAppends
    /\ \E content \in {RecordContent(counter)} :
       \E b \in 0..(IoCalls(World, options, now, KeyCrashTest, NoHeader, content,
                            TRUE) - 1) :
       \E r \in {append_entry(World, options, now, KeyCrashTest, NoHeader,
                              content, TRUE, b)} :
          /\ dir_exists' = r.w.dir_exists
          /\ files' = r.w.files
          /\ created' = created \o r.created
    /\ EngineGone
    /\ hist' = [hist EXCEPT !.appends = @ + 1, !.crashed = TRUE]
    /\ last' = [op |-> "crash"]
    /\ pc' = "killed"
    /\ UNCHANGED <<now, log, snapshot, counter>>

\* the worker is killed outside the I/O calls of an append: while it sleeps,
\* or when the append has returned and the counter is not yet incremented
WriterKilled ==
    /\ pc \in {"loop", "appended"}
    /\ EngineGone
    /\ hist' = [hist EXCEPT !.crashed = TRUE]
    /\ last' = [op |-> "crash"]
    /\ pc' = "killed"
    /\ UNCHANGED <<dir_exists, files, now, log, created, snapshot, counter>>

\* the verification engine is opened on the directory
Verify ==
    /\ pc = "killed"
    /\ Opened(DefaultOptions)
    /\ pc' = "verify"

NextWriter ==
    \/ WriterOpen
    \/ WriterAppend
    \/ WriterIncrement
    \/ WriterKilledInAppend
    \/ WriterKilled
    \/ Tick
    \/ Verify

SpecWriter == Init /\ [][NextWriter]_vars

\* The engine opened with every configuration of the range, one key appended
\* to.
NextOptions ==
    \/ \E opts \in OptionRange : Open(opts)
    \/ \E inp \in InputChoices : AppendEntry(KeyA, inp)
    \/ Tick
    \/ Drop
    \/ Compact

SpecOptions == Init /\ [][NextOptions]_vars

\* Batches and single appends, and a power failure.
NextBatch ==
    \/ \E opts \in {DefaultOptions} : Open(opts)
    \/ \E b \in BatchChoices \cup FailingBatchChoices :
          AppendBatch(b.k1, b.first, b.k2, b.header, b.durable, b.tick)
    \/ \E inp \in FaultChoices : AppendEntry(KeyA, inp)
    \/ Tick
    \/ Drop
    \/ PowerFail
    \/ \E n \in DOMAIN files :
          \E k \in 0..Len(files[n].data), zeros \in BOOLEAN : Lose(n, k, zeros)

SpecBatch == Init /\ [][NextBatch]_vars

\* Appends under two keys, and shutdown with and without a failing removal.
NextShutdown ==
    \/ \E opts \in {DefaultOptions} : Open(opts)
    \/ \E key \in Keys, inp \in FaultChoices : AppendEntry(key, inp)
    \/ Tick
    \/ Shutdown
    \/ \E gone \in SUBSET DOMAIN files : ShutdownIoError(gone)

SpecShutdown == Init /\ [][NextShutdown]_vars

\* ------------------------------------------------------------------------
\* History operators used by the properties
\* ------------------------------------------------------------------------

\* a[i..] is a subsequence of b[j..]
RECURSIVE SubseqFrom(_, _, _, _)
SubseqFrom(a, i, b, j) ==
    IF i > Len(a) THEN TRUE
    ELSE IF j > Len(b) THEN FALSE
    ELSE IF a[i] = b[j]
    THEN \E n \in {<<i + 1, j + 1>>} : SubseqFrom(a, n[1], b, n[2])
    ELSE \E n \in {j + 1} : SubseqFrom(a, i, b, n)

\* the elements of a occur in b, in the order of a
IsSubseq(a, b) == \E p \in {<<a, b>>} : SubseqFrom(p[1], 1, p[2], 1)

\* the contents of the entries of `entries` appended under key k, in order
ContentsOf(entries, k) ==
    Bind(SelectSeq(entries, LAMBDA e : e.key = k), LAMBDA sel :
        [i \in 1..Len(sel) |-> sel[i].content] \o <<>>)

\* nothing but successful appends, clock ticks and restarts has happened
OnlyAppends ==
    /\ ~hist.removed
    /\ ~hist.faulted
    /\ ~hist.crashed
    /\ hist.power = "never"

\* the chunks i .. i + data[i].of - 1 are the write_all calls of one whole
\* header or frame of the given kind
WholeAt(data, i, kind) ==
    /\ i <= Len(data)
    /\ data[i].kind = kind
    /\ data[i].part = 1
    /\ i + data[i].of - 1 <= Len(data)
    /\ \A j \in 0..(data[i].of - 1) :
          /\ data[i + j].kind = kind
          /\ data[i + j].part = j + 1
          /\ data[i + j].content = data[i].content

\* the contents of the complete record frames from chunk i on, up to the
\* first chunk that does not start one, and the index of that chunk
RECURSIVE WholeFrom(_, _)
WholeFrom(data, i) ==
    IF WholeAt(data, i, "record")
    THEN Bind(WholeFrom(data, i + data[i].of), LAMBDA g :
             [records |-> <<data[i].content>> \o g.records, next |-> g.next])
    ELSE [records |-> <<>>, next |-> i]

\* What was written to a file in full: the records of the complete frames
\* that follow its complete header, and the first chunk after them.
Whole(file) ==
    Bind(file.data, LAMBDA data :
        IF WholeAt(data, 1, "header")
        THEN WholeFrom(data, data[1].of + 1)
        ELSE [records |-> <<>>, next |-> 1])

\* the file ends in something that is not a complete frame
TornTail(file) == Whole(file).next <= Len(file.data)

\* what follows the complete frames of the file holds no complete frame: the
\* file is whole, or torn at its end only
TornAtEndOnly(file) ==
    \A next \in {Whole(file).next} :
        \A i \in next..Len(file.data) : ~WholeAt(file.data, i, "record")

\* the <<sequence, file name>> pairs of the files whose header names key k
SegmentsWrittenFor(k) ==
    {<<parse_filename(n)[2], n>> :
        n \in {m \in DOMAIN files :
                 /\ files[m].data # <<>>
                 /\ files[m].data[1].kind = "header"
                 /\ files[m].data[1].content = k}}

\* the complete records of the files of `order`, file after file
RECURSIVE ConcatWhole(_)
ConcatWhole(order) ==
    IF order = <<>> THEN <<>>
    ELSE Whole(files[Head(order)[2]]).records \o ConcatWhole(Tail(order))

\* the entries of `entries` for which pred holds
Those(entries, pred(_)) == SelectSeq(entries, pred)

\* ------------------------------------------------------------------------
\* Properties
\* ------------------------------------------------------------------------

\* C1: for every key k, after successful appends on any mix of keys, with
\* rotations in between and no compaction, enumerate_records(k) returns
\* exactly the contents appended under k, each once, in append order.
C1_EnumerateExactly ==
    (up /\ OnlyAppends) =>
        \A k \in Keys : enumerate_records(World, k) = {ContentsOf(log, k)}

\* C2: while the engine that returned EntryRef r for content c lives and the
\* segment file of r has not been deleted, read_entry_at(r) returns exactly
\* c: with no header, an empty header or a header of 65535 bytes, with empty
\* content, whatever was appended before or after.
C2_ReadEntryAtReturnsContent ==
    up => \A i \in DOMAIN log :
             (log[i].inst = hist.opens /\ ~log[i].gone) =>
                 read_entry_at(World, log[i].ref) = {ReadOk(log[i].content)}

\* C2 witness: a record with a header of 65535 bytes and empty content, and a
\* later record of this engine in the same segment file
C2_Witness ==
    /\ up
    /\ \E i, j \in DOMAIN log :
          /\ i < j
          /\ log[i].inst = hist.opens /\ log[j].inst = hist.opens
          /\ ~log[i].gone /\ ~log[j].gone
          /\ log[i].header = MAX_HEADER_SIZE /\ log[i].content = <<>>
          /\ log[i].ref[1] = log[j].ref[1] /\ log[i].ref[2] = log[j].ref[2]
          /\ log[j].content # <<>>

\* C3: right after a new engine is opened on the directory of an engine that
\* was dropped without shutdown, enumerate_records returns for every key what
\* it returned at the drop, and enumerate_keys the same key set; and over the
\* open/append/drop cycles every enumeration holds the contents appended
\* under the key, those of earlier cycles before those of later cycles.
C3_ReopenPreserves ==
    (up /\ OnlyAppends) =>
        /\ (last.op = "new" /\ snapshot.at + 1 = hist.opens) =>
              /\ \A k \in Keys : enumerate_records(World, k) = snapshot.records[k]
              /\ enumerate_keys(World) = snapshot.keys
        /\ \A k \in Keys : \A e \in enumerate_records(World, k) :
              IsSubseq(ContentsOf(log, k), e)

\* C3 witness: a second engine has appended under a key the first engine
\* appended under
C3_Witness ==
    /\ up /\ OnlyAppends
    /\ hist.opens = 2
    /\ \E i, j \in DOMAIN log :
          /\ log[i].inst = 1 /\ log[j].inst = 2
          /\ log[i].key = log[j].key
          /\ log[i].content # <<>> /\ log[j].content # <<>>

\* C8: on an engine opened after the one that returned EntryRef r for content
\* c was dropped, read_entry_at(r) returns c, after further appends too, as
\* long as the segment file of r has not been deleted.
C8_EntryRefSurvivesRestart ==
    up => \A i \in DOMAIN log :
             (log[i].inst < hist.opens /\ ~log[i].gone) =>
                 read_entry_at(World, log[i].ref) = {ReadOk(log[i].content)}

\* C8 witness: a reference of the first engine, when the second engine has
\* appended under the same key and under the other key
C8_Witness ==
    /\ up
    /\ \E i, j, k \in DOMAIN log :
          /\ log[i].inst < hist.opens /\ ~log[i].gone
          /\ log[j].inst = hist.opens /\ log[j].key = log[i].key
          /\ log[k].key # log[i].key

\* the sequence numbers in the names, found at open, of the segment files of
\* key_hash h
SequencesAtOpen(h) ==
    {p[2] : p \in {q \in {parse_filename(n) : n \in hist.names_at_open} \ {NoName} :
                     q[1] = h}}

\* C10: the first segment an engine creates for a key has the sequence
\* number max + 1, where max is the highest sequence number in the names of
\* the key's segment files found at open, and 1 when there was none.
C10_FirstSequenceAfterOpen ==
    \A i \in DOMAIN created :
        (\A j \in 1..(i - 1) : created[j][1] # created[i][1]) =>
            \E on \in {SequencesAtOpen(created[i][1])} :
               /\ \A s \in on : created[i][2] > s
               /\ created[i][2] = IF on = {} THEN 1
                                  ELSE 1 + CHOOSE s \in on : \A t \in on : t <= s

\* C10 witness: an engine opened on a directory that holds segment 1 of one
\* key has created segment 2 of that key and segment 1 of a key without files
C10_Witness ==
    /\ up /\ hist.opens = 2
    /\ \E i, j \in DOMAIN created :
          /\ SequencesAtOpen(created[i][1]) = {1}
          /\ created[i][2] = 2
          /\ SequencesAtOpen(created[j][1]) = {}
          /\ created[j][2] = 1

\* C4: every record whose append_entry(durable = true) returned success
\* before a crash (the process ended without shutdown, killed at any I/O call
\* of an append, or a power failure) is returned intact and in append order
\* by enumerate_records of the engine opened afterwards, as long as no
\* segment was deleted.
C4_DurableSurvivesCrash ==
    (up /\ ~hist.removed) =>
        \A k \in Keys : \A e \in enumerate_records(World, k) :
            IsSubseq(ContentsOf(Those(log, LAMBDA x :
                                   x.durable /\ x.inst < hist.opens), k), e)

\* What holds of C4: in the histories in which no append failed with an I/O
\* error, the durable records survive every crash, and a killed process loses
\* no record whose append had returned, durable or not.
DurableSurvivesWithoutIoErrors ==
    (up /\ ~hist.removed /\ ~hist.faulted) =>
        \A k \in Keys : \A e \in enumerate_records(World, k) :
            /\ IsSubseq(ContentsOf(Those(log, LAMBDA x : x.durable), k), e)
            /\ hist.power = "never" => IsSubseq(ContentsOf(log, k), e)

\* C6: when segments of a key end in an incomplete record frame (the writer
\* stopped at any write of a frame) or in bytes that are no record signature,
\* enumerate_records still returns every complete record that precedes that
\* position in its segment, and after them the complete records of the
\* key's later segments.
C6_TornTailTolerated ==
    \A k \in Keys : \A written \in {SegmentsWrittenFor(k)} :
        (\A p \in written : TornAtEndOnly(files[p[2]])) =>
            \A order \in SortedOrders(written) :
                \A whole \in {ConcatWhole(order)} :
                    \A e \in enumerate_records(World, k) : IsSubseq(whole, e)

\* C6 witness: a segment with a complete record and then a torn tail, and a
\* later segment of the same key with a complete record
C6_Witness ==
    \E k \in Keys : \E p, q \in SegmentsWrittenFor(k) :
        /\ p[1] < q[1]
        /\ TornTail(files[p[2]])
        /\ Whole(files[p[2]]).records # <<>>
        /\ Whole(files[q[2]]).records # <<>>

\* every record of `entries` appended with durable = false occurs in e, in
\* the order of `entries` with the durable records of `entries` that occur
\* in e
NonDurableIn(entries, e) ==
    \A i \in DOMAIN entries :
        ~entries[i].durable =>
            /\ \E p \in DOMAIN e : e[p] = entries[i].content
            /\ \A j \in DOMAIN entries :
                  (entries[j].durable /\ \E q \in DOMAIN e : e[q] = entries[j].content) =>
                      \E p, q \in DOMAIN e :
                          /\ e[p] = entries[i].content
                          /\ e[q] = entries[j].content
                          /\ (i < j) <=> (p < q)

\* C7: without a power failure, a record whose append returned success with
\* durable = false is enumerated by an engine opened after the process ended
\* without shutdown, in append order with the durable records of its key, as
\* long as no segment was deleted.
C7_NonDurableSurvivesTermination ==
    (up /\ hist.power = "never" /\ ~hist.removed) =>
        \A k \in Keys : \A e \in enumerate_records(World, k) :
            \A entries \in {Those(log, LAMBDA x : x.key = k /\ x.inst < hist.opens)} :
                NonDurableIn(entries, e)

\* What holds of C7: the same, in the histories in which no append failed
\* with an I/O error.
NonDurableSurvivesWithoutIoErrors ==
    (up /\ hist.power = "never" /\ ~hist.removed /\ ~hist.faulted) =>
        \A k \in Keys : \A e \in enumerate_records(World, k) :
            \A entries \in {Those(log, LAMBDA x : x.key = k /\ x.inst < hist.opens)} :
                NonDurableIn(entries, e)

\* C9: within one engine's lifetime the sequence numbers of the segments
\* created for a key are strictly increasing, also after compaction has
\* deleted earlier segments and after creations that failed; and no two
\* segment files carry the same key hash and sequence number.
C9_SequencesIncrease ==
    /\ \A i, j \in DOMAIN created :
          (i < j /\ created[i][1] = created[j][1]) => created[i][2] < created[j][2]
    /\ \A parsed \in {[n \in DOMAIN files |-> parse_filename(n)]} :
          \A n, m \in DOMAIN files :
              (n # m /\ parsed[n] # NoName) => parsed[n] # parsed[m]

\* C9 witness: the third segment of a key, created after compaction deleted
\* an earlier one and after a creation that failed
C9_Witness ==
    /\ up /\ hist.removed /\ hist.faulted
    /\ Len(created) = 3
    /\ created[1][1] = created[3][1]
    /\ created[3][2] = 3
    /\ \E n \in DOMAIN files : ~WholeAt(files[n].data, 1, "header")

\* record-0 ... record-(n - 1)
Records(n) == [i \in 1..n |-> RecordContent(i - 1)] \o <<>>

\* C5: after the writer loop was killed at an arbitrary point, a
\* fresh engine enumerates exactly `counter` records for the key, record-0
\* ... record-(counter - 1) in order.
C5_ExactlyCounterRecords ==
    pc = "verify" => enumerate_records(World, KeyCrashTest) = {Records(counter)}

\* What holds of C5: the fresh engine enumerates record-0 ...
\* record-(counter - 1) in order, followed by record-<counter> when the
\* writer was killed after the frame of that record was written and before
\* the counter was incremented, and by nothing else.
CounterOrOneMoreRecords ==
    pc = "verify" =>
        \A e \in enumerate_records(World, KeyCrashTest) :
            e = Records(counter) \/ e = Records(counter + 1)

\* ------------------------------------------------------------------------
\* Active segments, compaction, errors (C11 - C20)
\* ------------------------------------------------------------------------

\* every active segment is the handle of a file of its own key_hash and
\* sequence number, and no two active segments are the same file
OneSegmentPerKeyHash ==
    /\ \A h \in DOMAIN active_segments :
          parse_filename(active_segments[h].file.name)
              = <<h, active_segments[h].sequence_number>>
    /\ \A g, h \in DOMAIN active_segments :
          active_segments[g].file.name = active_segments[h].file.name => g = h

\* C11 as stated: there is never more than one active segment per key_hash,
\* and in every state of an open engine active_segment_count() is the number
\* of distinct keys appended to since open (0 right after open, one more at
\* the first append to a new key, unchanged by further appends to the key,
\* rotating or not).
C11_CountIsKeysSinceOpen ==
    up => /\ OneSegmentPerKeyHash
          /\ active_segment_count(World) = Cardinality(hist.keys)

\* C11, amended: ... the number of distinct keys appended to since open,
\* until shutdown is called, which drops every active segment.
C11_CountIsKeysUntilShutdown ==
    (up /\ ~hist.shut) =>
        /\ OneSegmentPerKeyHash
        /\ active_segment_count(World) = Cardinality(hist.keys)

\* C11 witness: two keys appended to since open, one of them twice with a
\* rotation in between: three segments created, two active
C11_Witness ==
    /\ up /\ ~hist.shut
    /\ active_segment_count(World) = 2
    /\ Len(created) = 3
    /\ \E h \in DOMAIN active_segments : active_segments[h].sequence_number = 2

\* the expiration timestamps recorded in the segment files of the directory
\* (of the files whose header can be read that far, as compact reads it)
Expirations(fs) ==
    {ExpirationOf(fs[n]) : n \in {m \in DOMAIN fs : IsSuffix(LOG_SUFFIX, m)}}
        \ {-1}

EnumeratesOnlyFrom(least) ==
    \A k \in Keys : \A e \in enumerate_records(World, k) :
        \A i \in 1..Len(e) :
            \E j \in DOMAIN log : log[j].content = e[i] /\ log[j].exp >= least

\* C13 as stated: after compact() was called at clock time `now`, every
\* segment file whose expiration timestamp is less than or equal to `now` has
\* been removed, and enumerate_records(k) returns only records of segments
\* whose expiration is still in the future.
C13_CompactRemovesUpToNow ==
    (last.op = "compact" /\ ~hist.faulted) =>
        /\ \A e \in Expirations(files) : ~(e <= last.at)
        /\ EnumeratesOnlyFrom(last.at + 1)

\* C13, amended: every segment file whose expiration timestamp is strictly
\* less than `now` has been removed, and enumerate_records(k) returns only
\* records of segments whose expiration is `now` or later.
C13_CompactRemovesBeforeNow ==
    (last.op = "compact" /\ ~hist.faulted) =>
        /\ \A e \in Expirations(files) : ~(e < last.at)
        /\ EnumeratesOnlyFrom(last.at)

\* C13 witness: compaction deleted the records of a segment and left a
\* segment that expires at the time of the compaction, whose records are
\* enumerated
C13_Witness ==
    /\ last.op = "compact" /\ ~hist.faulted
    /\ \E i \in DOMAIN log : log[i].gone /\ log[i].exp < last.at
    /\ last.at \in Expirations(files)
    /\ \E k \in Keys : \E e \in enumerate_records(World, k) : e # <<>>

\* C14: compact() is idempotent: called again with no clock advance and no
\* other operation in between, it deletes nothing and leaves the directory,
\* and so every enumerate/read result, unchanged.
C14_CompactIdempotent ==
    (last.op = "compact" /\ last.at = now) =>
        /\ Expired(World, now) = {}
        /\ compact(World, now) = World

\* C14 witness: a compaction that has just deleted the file of an active
\* segment and left another file
C14_Witness ==
    /\ last.op = "compact" /\ last.at = now
    /\ \E h \in DOMAIN active_segments : active_segments[h].file.unlinked
    /\ files # EmptyMap

\* the step is a call of append_entry or log_entry with a header of n bytes
AppendStep(n) ==
    /\ hist'.appends = hist.appends + 1
    /\ last'.op = "append"
    /\ last'.header = n

C16_OpenValidatesOptions ==
    last.op = "new" =>
        IF last.opts.entry_retention = 0
              \/ last.opts.segments_per_retention_period = 0
        THEN last.res = Err("InvalidConfig")
        ELSE last.res.ok /\ up /\ options = last.opts /\ dir_exists

\* C16 witness: an engine opened with more segments per retention period
\* than seconds of retention, on a directory that holds a segment
C16_Witness ==
    /\ last.op = "new" /\ last.res.ok
    /\ last.opts.entry_retention < last.opts.segments_per_retention_period
    /\ files # EmptyMap

\* the largest sequence number of the references that were never issued
MaxRefSequence == 3

\* EntryRefs to look up: those the appends returned, and others for the
\* key_hash of each key of the engine and of a key never appended to
CandidateRefs ==
    {log[i].ref : i \in DOMAIN log}
        \cup {<<KeyHash(k), s, 0>> : k \in Keys \cup {KeyBang},
                                    s \in 0..MaxRefSequence}

\* no file of the directory is the segment (key_hash, sequence_number) of
\* the EntryRef: the segment file of the key with that hash is not there
NoSegmentOf(entry_ref) ==
    \A k \in Keys \cup {KeyBang} :
        KeyHash(k) = entry_ref[1] => FileOf(k, entry_ref) \notin DOMAIN files

AppendedTo(active) ==
    /\ hist'.appends = hist.appends + 1
    /\ last'.op = "append" /\ last'.res.ok
    /\ KeyHash(last'.key) \in DOMAIN active_segments
    /\ active = active_segments[KeyHash(last'.key)]

C19_OpenInstallsNothing ==
    [][hist'.opens = hist.opens + 1 =>
          /\ last'.op = "new" /\ last'.res.ok
          /\ up' /\ dir_exists'
          /\ active_segment_count([active_segments |-> active_segments']) = 0
          /\ files' = files ]_vars

\* C19 witness: a second engine just opened on a directory that holds
\* segments of two keys
C19_Witness ==
    /\ up /\ last.op = "new" /\ hist.opens = 2
    /\ active_segments = EmptyMap
    /\ \A k \in Keys : \E n \in DOMAIN files : parse_filename(n)[1] = KeyHash(k)

\* C20: log_entry(key, header, content) is indistinguishable from
\* append_entry(key, header, content, durable = true) in every state: the
\* same EntryRef or error is returned, the files and the active-segment
\* table change in the same way, and the record is synced before return.
C20_LogEntryIsDurableAppend ==
    [][\A key \in Keys, inp \in LogChoices :
         LogEntry(key, inp) =>
            \E r \in {append_entry(World, options, now, key, inp.header,
                                   ContentOf(inp, hist.appends + 1), TRUE,
                                   NoFail)} :
               /\ last'.res = r.res
               /\ SetWorld(r.w)
               /\ r.res.ok =>
                     \E n \in {FileOf(key, r.res.ref)} :
                        n \in DOMAIN files' =>
                           files'[n].synced = Len(files'[n].data) ]_vars

\* C20 witness: log_entry has returned a reference into a segment file that
\* held a record appended with durable = false, and the file is synced to
\* its end
C20_Witness ==
    /\ up /\ last.op = "append" /\ last.header = 0 /\ last.res.ok
    /\ \E n \in {FileOf(last.key, last.res.ref)} :
          /\ n \in DOMAIN files
          /\ files[n].synced = Len(files[n].data)
          /\ \E i \in DOMAIN log :
                /\ ~log[i].durable /\ log[i].inst = hist.opens
                /\ FileOf(log[i].key, log[i].ref) = n

\* ------------------------------------------------------------------------
\* Keys, batches, shutdown, segment layout (C21 - C30)
\* ------------------------------------------------------------------------

\* the keys named by the segment headers that were written in full to a
\* file of the directory
KeysWithHeader ==
    {files[n].data[1].content :
        n \in {m \in DOMAIN files : /\ IsSuffix(LOG_SUFFIX, m)
                                    /\ WholeAt(files[m].data, 1, "header")}}

\* a power failure left zeros in the file where written bytes were lost
ZeroFilled(file) == \E i \in DOMAIN file.data : file.data[i].kind = "junk"

\* C21: enumerate_keys() returns exactly the set of distinct keys that have
\* at least one segment file with a valid segment header on disk: each key
\* once however many segments and records it has, keys whose segments were
\* all removed by compaction are absent, and files without a valid segment
\* signature are skipped without error.
C21_EnumerateKeys ==
    up => /\ KeysWithHeader \subseteq enumerate_keys(World)
          /\ (\A n \in DOMAIN files : ~ZeroFilled(files[n])) =>
                 enumerate_keys(World) = KeysWithHeader

\* C21 witness: a file whose header was not written in full, next to a
\* segment of the key, after compaction removed an earlier segment
C21_Witness ==
    /\ up /\ hist.removed
    /\ \A n \in DOMAIN files : ~ZeroFilled(files[n])
    /\ \E n \in DOMAIN files :
          files[n].data # <<>> /\ ~WholeAt(files[n].data, 1, "header")
    /\ \E n \in DOMAIN files : WholeAt(files[n].data, 1, "header")
    /\ enumerate_keys(World) = {KeyA}

\* C22: after append_batch(entries, durable = true) returned success, every
\* record of the batch is on stable storage: it is enumerated by the engine
\* opened after a power failure, whatever the keys of the batch and the
\* clock during the batch.
C22_DurableBatchSurvivesPowerFailure ==
    (up /\ hist.power = "past") =>
        \A k \in Keys : \A e \in enumerate_records(World, k) :
            IsSubseq(ContentsOf(Those(log, LAMBDA x :
                                   x.durable /\ x.inst < hist.opens), k), e)

\* What holds of C22: the durable records in the segment that was the
\* active one of their key when the engine stopped survive the power
\* failure; the sync pass of a batch reaches no segment that an entry of the
\* batch rotated away from.
DurableSurvivesInNewestSegment ==
    (up /\ hist.power = "past") =>
        \A k \in Keys : \A e \in enumerate_records(World, k) :
            IsSubseq(ContentsOf(Those(log, LAMBDA x :
                        /\ x.durable /\ x.inst < hist.opens
                        /\ \A j \in DOMAIN log :
                              (log[j].key = x.key /\ log[j].inst = x.inst)
                                  => log[j].ref[2] <= x.ref[2]), k), e)

\* the index of the first entry of a batch that append_entry refuses
FailedAt(entries) ==
    CHOOSE i \in 1..Len(entries) :
        /\ entries[i][2] # NoHeader /\ entries[i][2] > MAX_HEADER_SIZE
        /\ \A j \in 1..(i - 1) :
              entries[j][2] = NoHeader \/ entries[j][2] <= MAX_HEADER_SIZE

\* a complete record frame with this content is in a segment file whose
\* header names the key
WrittenUnder(key, content) ==
    \E n \in DOMAIN files :
        /\ WholeAt(files[n].data, 1, "header")
        /\ files[n].data[1].content = key
        /\ \E i \in DOMAIN files[n].data :
              /\ WholeAt(files[n].data, i, "record")
              /\ files[n].data[i].content = content

\* the contents of the entries of a batch, all of them or those of key k
BatchContents(entries) == [j \in 1..Len(entries) |-> entries[j][3]] \o <<>>
BatchContentsOf(entries, k) ==
    BatchContents(SelectSeq(entries, LAMBDA x : x[1] = k))

\* the error is returned with no EntryRef; the entries before the failed one
\* are written, the failed one and those after it are not
BatchStoppedAtFailure(entries) ==
    /\ last.res = Err("HeaderTooLarge")
    /\ \A j \in 1..Len(entries) :
          j < FailedAt(entries) <=> WrittenUnder(entries[j][1], entries[j][3])

\* C23: if the i-th entry of append_batch fails, the call returns that error
\* and no EntryRefs, no entry after i is written, and the entries before i
\* stay written: for each key, the batch records visible to
\* enumerate_records are a prefix of the batch's entries for that key.
C23_FailedBatchLeavesPrefix ==
    (up /\ last.op = "append_batch" /\ ~last.res.ok) =>
        \A entries \in {last.entries} :
            /\ BatchStoppedAtFailure(entries)
            /\ \A k \in Keys : \A e \in enumerate_records(World, k) :
                  IsPrefix(SelectSeq(e, LAMBDA c :
                               \E j \in 1..Len(entries) : c = entries[j][3]),
                           BatchContentsOf(entries, k))

\* What holds of C23: the batch stops at the failed entry, and for each key
\* the records of the batch's entries for that key which enumerate_records
\* returns are a prefix of those entries.
FailedBatchLeavesPrefixOfOwnKey ==
    (up /\ last.op = "append_batch" /\ ~last.res.ok) =>
        \A entries \in {last.entries} :
            /\ BatchStoppedAtFailure(entries)
            /\ \A k \in Keys : \A e \in enumerate_records(World, k) :
                  IsPrefix(SelectSeq(e, LAMBDA c :
                               \E j \in 1..Len(entries) :
                                   c = entries[j][3] /\ entries[j][1] = k),
                           BatchContentsOf(entries, k))

\* C24: read_entry_at is idempotent: with no mutating operation in between,
\* every call with the same EntryRef returns the same result, whatever the
\* order in which the directory lists its files.
C24_ReadEntryAtIsAFunction ==
    up => \A entry_ref \in CandidateRefs :
             Cardinality(read_entry_at(World, entry_ref)) = 1

\* C24 witness: segments of two keys with the same sequence number, a record
\* that read_entry_at returns, and a reference it answers with an error
C24_Witness ==
    /\ up
    /\ \E m, n \in DOMAIN files :
          /\ parse_filename(m)[1] # parse_filename(n)[1]
          /\ parse_filename(m)[2] = parse_filename(n)[2]
    /\ \E i \in DOMAIN log :
          read_entry_at(World, log[i].ref) = {ReadOk(log[i].content)}
    /\ \E entry_ref \in CandidateRefs :
          \E r \in read_entry_at(World, entry_ref) : ~r.ok

\* C25: shutdown() empties the active-segment table before it attempts to
\* remove the directory, so active_segment_count() is 0 afterwards even when
\* the removal fails (the removal error is returned); when it succeeds the
\* directory and all segment files are gone.
C25_ShutdownDropsHandlesFirst ==
    (up /\ last.op = "shutdown") =>
        /\ active_segment_count(World) = 0
        /\ IF last.res.ok THEN ~dir_exists /\ files = EmptyMap
           ELSE last.res = Err("Io")

\* C25 witness: a shutdown whose removal failed after it had removed one of
\* two segment files, on an engine that had two active segments
C25_Witness ==
    /\ up /\ last.op = "shutdown" /\ ~last.res.ok
    /\ Cardinality(hist.keys) = 2
    /\ Cardinality(DOMAIN files) = 1
    /\ \E i \in DOMAIN log : log[i].gone

\* C26: each segment holds records of exactly one key: for all keys
\* k1 # k2, appending under k1 changes neither enumerate_records(k2) nor any
\* segment file of k2, and enumerate_records(k) never returns a record that
\* was appended under another key.
C26_KeysAreIsolated ==
    [][(hist'.appends = hist.appends + 1 /\ last'.op = "append") =>
          \A k2 \in Keys \ {last'.key} :
             /\ enumerate_records(World, k2)' = enumerate_records(World, k2)
             /\ \A n \in DOMAIN files :
                   (files[n].data # <<>> /\ files[n].data[1].content = k2)
                       => (n \in DOMAIN files' /\ files'[n] = files[n]) ]_vars

\* What holds of C26: an append under k1 changes no segment file whose
\* header names another key, and creates no such file.
AppendTouchesOwnSegmentsOnly ==
    [][(hist'.appends = hist.appends + 1 /\ last'.op = "append") =>
          /\ \A n \in DOMAIN files :
                (files[n].data # <<>> /\ files[n].data[1].content # last'.key)
                    => (n \in DOMAIN files' /\ files'[n] = files[n])
          /\ \A n \in DOMAIN files' \ DOMAIN files :
                files'[n].data[1].content = last'.key ]_vars

\* the step is an append_entry that returned Ok and created a segment
CreatedSegment ==
    /\ hist'.appends = hist.appends + 1
    /\ last'.op = "append" /\ last'.res.ok
    /\ Len(created') = Len(created) + 1

\* C27: the segment duration is max(1, entry_retention /
\* segments_per_retention_period) in whole seconds: every segment created at
\* clock time now gets expiration_timestamp >= now + 1, for every valid
\* configuration, so that a second append to the key within the same second
\* goes to the same segment.
C27_SegmentLastsASecond ==
    [][CreatedSegment =>
          \E active \in {active_segments'[KeyHash(last'.key)]} :
             /\ active.expiration_timestamp
                   = now + Max(1, options.entry_retention
                                    \div options.segments_per_retention_period)
             /\ active.expiration_timestamp >= now + 1
             /\ ~RotationNeeded(active, now) ]_vars

\* What holds of C27: the segment expires at now + entry_retention /
\* segments_per_retention_period, the quotient rounded down, which is now
\* itself when the retention has fewer seconds than segments.
SegmentLastsTheQuotient ==
    [][CreatedSegment =>
          active_segments'[KeyHash(last'.key)].expiration_timestamp
              = now + (options.entry_retention
                          \div options.segments_per_retention_period) ]_vars

\* the active segments whose file no name of the directory reaches
ActiveWithoutFile ==
    {h \in DOMAIN active_segments :
        \/ active_segments[h].file.unlinked
        \/ active_segments[h].file.name \notin DOMAIN files}

\* C28: whenever compact() deletes a segment file, no entry of the
\* active-segment table refers to that file, rotation having dropped its
\* handle; equivalently, in every reachable state before shutdown the file of
\* every active segment exists on disk.
C28_ActiveSegmentFilesExist ==
    (up /\ ~hist.shut) => ActiveWithoutFile = {}

\* What holds of the code in place of C28: an active segment whose file is
\* gone is past its expiration, so the next append under its key rotates it
\* away and writes nothing through its handle.
ActiveWithoutFileIsExpired ==
    up => \A h \in ActiveWithoutFile : RotationNeeded(active_segments[h], now)

\* C29: compact() deletes a segment file only when the clock at the call is
\* strictly greater than the expiration timestamp recorded in the file's
\* header (a file with expiration >= now is never deleted by compact), and no
\* operation other than compact and shutdown removes a segment file.
C29_OnlyExpiredFilesAreRemoved ==
    [][ \A n \in DOMAIN files : n \notin DOMAIN files' =>
          \/ last'.op = "shutdown"
          \/ /\ last'.op = "compact" /\ last'.at = now /\ now' = now
             /\ \E e \in {ExpirationOf(files[n])} : e >= 0 /\ now > e ]_vars

\* C29 witness: a compaction has deleted a segment and left one that expires
\* after the time of the call
C29_Witness ==
    /\ last.op = "compact" /\ ~hist.shut
    /\ \E i \in DOMAIN log : log[i].gone /\ log[i].exp < last.at
    /\ \E e \in Expirations(files) : e > last.at

\* The write_all calls a file holds are those of one segment header, in
\* order from the first, and behind a whole header those of record frames.
HeaderThenFrames(file) ==
    LET data == file.data IN
    /\ \A i \in DOMAIN data :
          /\ data[i].kind \in {"header", "record"}
          /\ data[i].at = (IF i = 1 THEN 0
                           ELSE data[i - 1].at + ChunkLen(data[i - 1]))
          /\ data[i].kind = "header" => data[i].part = i /\ i <= data[1].of
          /\ data[i].kind = "record" =>
                WholeAt(data, 1, "header") /\ i > data[1].of
    /\ file.len = (IF data = <<>> THEN 0
                   ELSE data[Len(data)].at + ChunkLen(data[Len(data)]))

\* C30: in every reachable state, the state a process killed at any write
\* step leaves included, each segment file consists of a (possibly
\* incomplete) segment header followed, only when the header is complete, by
\* record frames; a segment is installed as active, and so receives its first
\* record, only after its full header has been written.
C30_HeaderBeforeFrames ==
    /\ \A n \in DOMAIN files : ~ZeroFilled(files[n]) => HeaderThenFrames(files[n])
    /\ \A h \in DOMAIN active_segments :
          ~active_segments[h].file.unlinked =>
              /\ active_segments[h].file.name \in DOMAIN files
              /\ WholeAt(files[active_segments[h].file.name].data, 1, "header")

\* C30 witness: a killed append left a file with a part of its header and
\* nothing else, and the engine opened afterwards has an active segment whose
\* file holds a record
C30_Witness ==
    /\ up /\ hist.crashed /\ hist.power = "never"
    /\ \E n \in DOMAIN files :
          /\ files[n].data # <<>>
          /\ Len(files[n].data) < files[n].data[1].of
    /\ \E h \in DOMAIN active_segments :
          /\ active_segments[h].file.name \in DOMAIN files
          /\ \E i \in DOMAIN files[active_segments[h].file.name].data :
             files[active_segments[h].file.name].data[i].kind = "record"


\* ------------------------------------------------------------------------
\* Files, references, recovery (C31 - C40)
\* ------------------------------------------------------------------------

\* the step is one in which no power failure takes bytes from a file
NoBytesLost == ~(hist.power = "off" /\ hist'.power = "off")

\* C31: segment files are append-only: between a file's creation and its
\* deletion every operation leaves its existing bytes unchanged; an append
\* only extends the active file of the appended key, and open and sync modify
\* no file (enumerate_keys, enumerate_records and read_entry_at are functions
\* of the directory and have no effect at all).
C31_FilesAreAppendOnly ==
    [][ NoBytesLost =>
          \A n \in DOMAIN files \cap DOMAIN files' :
             /\ IsPrefix(files[n].data, files'[n].data)
             /\ files'[n].data # files[n].data =>
                   /\ hist'.appends > hist.appends
                   /\ (last'.op = "append" /\ last'.res.ok) =>
                         /\ KeyHash(last'.key) \in DOMAIN active_segments'
                         /\ active_segments'[KeyHash(last'.key)].file.name = n
                   /\ last'.op = "append" =>
                         files'[n].data[1].content = last'.key ]_vars

\* C31 witness: an engine opened on a file that ends in a part of a frame has
\* extended a file that held a record with a second record, and another file
\* was created
C31_Witness ==
    /\ up /\ hist.crashed /\ hist.power = "never"
    /\ \E n \in DOMAIN files :
          \E i \in DOMAIN files[n].data :
             /\ files[n].data[i].kind = "record"
             /\ i = Len(files[n].data)
             /\ files[n].data[i].part < files[n].data[i].of
    /\ \E n \in DOMAIN files :
          \E i, j \in DOMAIN files[n].data :
             /\ i < j
             /\ WholeAt(files[n].data, i, "record")
             /\ WholeAt(files[n].data, j, "record")

\* C37: if an append_entry fails with an I/O error after part of a record
\* frame was written, every later successful append to the same key in the
\* same engine is still returned by enumerate_records(key), after the records
\* completed before the failure, and by read_entry_at of its EntryRef.
C37_AppendsAfterIoErrorAreRead ==
    (up /\ hist.faulted /\ ~hist.removed /\ hist.power = "never") =>
        \A k \in Keys :
           \A mine \in {Those(log, LAMBDA x : x.inst = hist.opens /\ x.key = k)} :
              /\ \A e \in enumerate_records(World, k) :
                    IsSubseq(ContentsOf(mine, k), e)
              /\ \A i \in DOMAIN mine :
                    read_entry_at(World, mine[i].ref) = {ReadOk(mine[i].content)}

\* What holds of C37: read_entry_at returns the record of every successful
\* append of the engine, also of those behind the incomplete frame that the
\* failed append left; enumerate_records does not.
AppendsAfterIoErrorAreReadByRef ==
    (up /\ hist.faulted /\ ~hist.removed /\ hist.power = "never") =>
        \A i \in DOMAIN log :
           log[i].inst = hist.opens =>
               read_entry_at(World, log[i].ref) = {ReadOk(log[i].content)}

\* the size of the record frame of append_entry: signature, header length,
\* header, content length, content
FrameSize(header, content) ==
    6 + 2 + (IF header = NoHeader THEN 0 ELSE header) + 8 + Len(content)

\* the entries before the i-th that were appended to the same segment
EarlierInSegment(i) ==
    {j \in 1..(i - 1) :
        /\ log[j].inst = log[i].inst
        /\ log[j].key = log[i].key
        /\ log[j].ref[1] = log[i].ref[1]
        /\ log[j].ref[2] = log[i].ref[2]}

\* the offsets of the EntryRefs add up, frame by frame, from 0, and every
\* file that holds the record has the EntryRef's sequence number in its name
OffsetsAddUp ==
    \A i \in DOMAIN log :
       /\ \E earlier \in {EarlierInSegment(i)} :
             IF earlier = {} THEN log[i].ref[3] = 0
             ELSE \E j \in {CHOOSE m \in earlier : \A o \in earlier : o <= m} :
                     log[i].ref[3] =
                         log[j].ref[3] + FrameSize(log[j].header, log[j].content)
       /\ \A n \in DOMAIN files :
             (\E c \in DOMAIN files[n].data :
                 /\ files[n].data[c].kind = "record"
                 /\ files[n].data[c].content = log[i].content
                 /\ log[i].content # <<>>)
                 => parse_filename(n) = <<log[i].ref[1], log[i].ref[2]>>

\* C32: the EntryRef returned for the first record of every segment has
\* offset 0, and for each later record of the same segment the offset equals
\* the previous record's offset plus that record's frame size (6 + 2 + header
\* length + 8 + content length); the sequence_number in the EntryRef equals
\* the sequence number in the name of the file that holds the record.
C32_OffsetsAddUp == OffsetsAddUp

\* What holds of C32: the statement, in the histories in which no append
\* failed with an I/O error.
OffsetsAddUpWithoutIoErrors == ~hist.faulted => OffsetsAddUp

\* the record scan of every segment file stops after at most one iteration
\* for every 16 bytes of the file, and one more
ScanConsumesSixteenBytes ==
    \A n \in DOMAIN files :
       \E start \in {skip_file_header(files[n])} :
          start >= 0 =>
              16 * (ScanFrom(files[n], start).iterations - 1) <= files[n].len

\* every read of a segment file returns, to whatever offset it is directed
ReadersReturn ==
    \A n \in DOMAIN files :
       /\ ScanOutcomes(files[n]) = {"returned"}
       /\ \A offset \in {ref[3] : ref \in CandidateRefs} :
             ReadEntryOutcomes(files[n], offset) = {"returned"}

\* C33: every read-side and maintenance operation terminates on any finite
\* directory and any file contents: the record scan of enumerate_records
\* consumes at least 16 bytes per iteration and stops at end of file or at
\* the first position that does not hold a record signature, and the
\* operations return a result or an error.
C33_ReadersTerminate == ScanConsumesSixteenBytes /\ ReadersReturn

\* What holds of C33: the scan consumes at least 16 bytes per iteration on
\* every file, and every read returns on the files of a history in which no
\* append failed with an I/O error.
ReadersReturnWithoutIoErrors ==
    /\ ScanConsumesSixteenBytes
    /\ ~hist.faulted => ReadersReturn

\* read_entry_at of the EntryRef of the i-th successful append returns the
\* content of that append or an error
ReadsOwnRecordOrError(i) ==
    \A res \in read_entry_at(World, log[i].ref) :
        res.ok => res.content = log[i].content

\* C34: across any sequence of appends, rotations, compactions, crashes and
\* reopens, read_entry_at(r) for an EntryRef r that was returned by some
\* append returns either the content of exactly that append or an error,
\* never the content of a different record, also after r's segment was
\* deleted by compaction and the engine was reopened and appended to again.
C34_ReadEntryAtNeverAnotherRecord ==
    up => \A i \in DOMAIN log : ReadsOwnRecordOrError(i)

\* What holds of C34: the statement for the EntryRefs whose segment file was
\* not deleted, and for those returned by the engine that is open, as long as
\* no power failure has left zeros in place of written bytes.
ReadEntryAtOwnRecordUntilReopened ==
    (up /\ hist.power = "never") => \A i \in DOMAIN log :
             (~log[i].gone \/ log[i].inst = hist.opens) => ReadsOwnRecordOrError(i)

\* the last operation was an append that returned Ok, after a compaction of
\* this directory had deleted a file
AppendedAfterCompact ==
    /\ up /\ hist.removed /\ hist.power = "never"
    /\ last.op = "append" /\ last.res.ok
    /\ log # <<>>

\* the record of the last append is in a file of the directory, behind the
\* EntryRef the append returned
LastAppendOnDisk ==
    \E e \in {log[Len(log)]} :
       /\ ~e.gone
       /\ FileOf(e.key, e.ref) \in DOMAIN files
       /\ read_entry_at(World, e.ref) = {ReadOk(e.content)}

\* C35: with a non-decreasing clock, no record is ever appended into a
\* segment file that compact() has deleted: every append that returns success
\* after a compact() has left its record in a file that is present in the
\* directory, so the record is returned by enumerate_records and by
\* read_entry_at of its EntryRef.
C35_AppendAfterCompactIsRead ==
    AppendedAfterCompact =>
        /\ LastAppendOnDisk
        /\ \A e \in enumerate_records(World, last.key) :
              \E i \in DOMAIN e : e[i] = log[Len(log)].content

\* What holds of C35: the record of every append that returns success after
\* a compaction is in a file of the directory and is read by read_entry_at;
\* it is enumerated in the histories in which no append failed with an I/O
\* error.
AppendAfterCompactIsOnDisk ==
    AppendedAfterCompact =>
        /\ LastAppendOnDisk
        /\ ~hist.faulted =>
              \A e \in enumerate_records(World, last.key) :
                 \E i \in DOMAIN e : e[i] = log[Len(log)].content

\* the step is a sync() of the engine that reached the disk: it changes
\* nothing but how much of the files is on stable storage
SyncStep ==
    /\ up /\ up'
    /\ hist' = hist /\ log' = log /\ now' = now
    /\ active_segments' = active_segments
    /\ files' # files
    /\ DOMAIN files' = DOMAIN files
    /\ \A n \in DOMAIN files : files'[n].data = files[n].data

\* the frame of the i-th successful append is on stable storage: a power
\* failure leaves it in its file
Stable(i) ==
    /\ FileOf(log[i].key, log[i].ref) \in DOMAIN files
    /\ \E file \in {files[FileOf(log[i].key, log[i].ref)]} :
          \E c \in DOMAIN file.data :
             /\ WholeAt(file.data, c, "record")
             /\ file.data[c].content = log[i].content
             /\ c + file.data[c].of - 1 <= file.synced

\* C36: after sync() returns success, every record whose append returned
\* success earlier in this engine's lifetime, durable or not, is on stable
\* storage and survives a power failure, whichever segment it was written
\* to.
C36_SyncMakesEveryRecordStable ==
    [][ SyncStep =>
          \A i \in DOMAIN log :
             (log[i].inst = hist.opens /\ ~log[i].gone) => Stable(i)' ]_vars

\* What holds of C36: after sync() the records of this engine that lie in
\* the segments that are active at the call are on stable storage.
SyncMakesActiveSegmentsStable ==
    [][ SyncStep =>
          \A i \in DOMAIN log :
             (/\ log[i].inst = hist.opens /\ ~log[i].gone
              /\ \E h \in DOMAIN active_segments :
                    /\ ~active_segments[h].file.unlinked
                    /\ active_segments[h].file.name =
                           FileOf(log[i].key, log[i].ref)) => Stable(i)' ]_vars

\* the contents of e are in the order in which they were appended (the n-th
\* append of a behaviour appends the content <<n>>)
InAppendOrder(e) == \A i, j \in DOMAIN e : i < j => e[i][1] < e[j][1]

\* an engine opened after a process was killed inside an append, with no
\* other fault in the history
ReopenedAfterCrash ==
    /\ up /\ hist.crashed /\ ~hist.faulted /\ hist.power = "never"

\* C38: after a crash that leaves an incomplete frame at the tail of a key's
\* last segment, followed by reopen and further successful appends to that
\* key, enumerate_records(key) returns all surviving pre-crash records
\* followed by all post-restart records in append order: the first append
\* after reopen never extends an existing file but creates a new segment with
\* sequence number max + 1, even when the previous segment has not expired.
C38_RecoveryAppendsToNewSegment ==
    ReopenedAfterCrash =>
        \A k \in FaultKeys :
           /\ \A e \in enumerate_records(World, k) :
                 /\ IsSubseq(ContentsOf(Those(log, LAMBDA x : ~x.gone), k), e)
                 /\ InAppendOrder(e)
           /\ \A i \in DOMAIN log :
                 (log[i].inst = hist.opens /\ log[i].key = k) =>
                     /\ FileOf(k, log[i].ref) \notin hist.names_at_open
                     /\ \A s \in SequencesAtOpen(KeyHash(k)) : log[i].ref[2] > s
           /\ (\E i \in DOMAIN log : log[i].inst = hist.opens /\ log[i].key = k) =>
                 \E on \in {SequencesAtOpen(KeyHash(k))} :
                    created[1] = <<KeyHash(k),
                                   IF on = {} THEN 1
                                   ELSE 1 + CHOOSE s \in on : \A t \in on : t <= s>>

\* C38 witness: the engine was opened on a segment that holds a record and
\* then a part of a frame and has not expired, and has appended a record,
\* which lies in the next segment
C38_Witness ==
    /\ ReopenedAfterCrash /\ hist.opens = 2
    /\ \E i, j \in DOMAIN log :
          /\ log[i].inst = 1 /\ log[j].inst = 2
          /\ log[i].key = log[j].key
          /\ ~log[i].gone /\ ~log[j].gone
          /\ log[i].exp > now
          /\ log[j].ref[2] = log[i].ref[2] + 1
          /\ TornTail(files[FileOf(log[i].key, log[i].ref)])
          /\ enumerate_records(World, log[i].key) =
                 {<<log[i].content, log[j].content>>}

\* ------------------------------------------------------------------------
\* A reader beside the writer
\* ------------------------------------------------------------------------

\* The writer enters append_entry: `snapshot` keeps the engine and the
\* arguments of the call, `counter` the number of its I/O calls that have
\* taken effect.
BeginAppend(key, inp) ==
    /\ up /\ pc = "idle"
    /\ hist.appends < MaxAppends
    /\ snapshot' = [base |-> World, clock |-> now, key |-> key,
                    header |-> inp.header, durable |-> inp.durable,
                    content |-> ContentOf(inp, hist.appends + 1)]
    /\ counter' = 0
    /\ pc' = "writing"
    /\ hist' = [hist EXCEPT !.appends = @ + 1]
    /\ UNCHANGED <<dir_exists, files, up, options, active_segments,
                   next_sequence, now, log, created, last>>

\* the append in progress, cut off after b I/O calls
AppendInProgress(b) ==
    append_entry(snapshot.base, options, snapshot.clock, snapshot.key,
                 snapshot.header, snapshot.content, snapshot.durable, b)

\* the next I/O call of the append in progress (open, write_all or
\* sync_data) takes effect on the directory
WriteStep ==
    /\ pc = "writing"
    /\ counter < AppendInProgress(NoFail).used
    /\ files' = AppendInProgress(counter + 1).w.files
    /\ counter' = counter + 1
    /\ UNCHANGED <<dir_exists, up, options, active_segments, next_sequence, now,
                   log, created, snapshot, hist, last, pc>>

\* append_entry returns Ok to the writer
FinishAppend ==
    /\ pc = "writing"
    /\ \E r \in {AppendInProgress(NoFail)} :
          /\ counter = r.used
          /\ SetWorld(r.w)
          /\ log' = Append(log, Entry(r.w, snapshot.key, snapshot.header,
                                      snapshot.content, snapshot.durable,
                                      r.res.ref))
          /\ created' = created \o r.created
          /\ hist' = [hist EXCEPT !.keys = @ \cup {snapshot.key}]
    /\ pc' = "idle"
    /\ counter' = 0
    /\ UNCHANGED <<up, options, now, snapshot, last>>

\* the reader's engine has nothing to read, or its call has returned
ReaderIdle == last.op = "enumerate" => last.order = <<>>

\* enumerate_records(key) on the reader's engine lists the directory and
\* sorts the segment files of the key; `last` keeps the reader's position:
\* the files still to read, the position in the first of them (-1 before its
\* header is skipped), the records of that file and of the files before it
ReaderList(key) ==
    /\ dir_exists /\ ReaderIdle
    /\ \E order \in SortedOrders(SegmentFilesOf(World, key)) :
          last' = [op |-> "enumerate", key |-> key, order |-> order, pos |-> -1,
                   file_records |-> <<>>, records |-> <<>>]
    /\ UNCHANGED <<dir_exists, files, up, options, active_segments,
                   next_sequence, now, log, created, snapshot, hist, counter, pc>>

\* read_records_from_segment opens the next file and skips its header; the
\* file is passed over when that fails
ReaderOpenFile ==
    /\ last.op = "enumerate" /\ last.order # <<>> /\ last.pos = -1
    /\ \E start \in {skip_file_header(files[Head(last.order)[2]])} :
          last' = IF start < 0
                  THEN [last EXCEPT !.order = Tail(@)]
                  ELSE [last EXCEPT !.pos = start]
    /\ UNCHANGED <<dir_exists, files, up, options, active_segments,
                   next_sequence, now, log, created, snapshot, hist, counter, pc>>

\* one iteration of the loop of read_records_from_segment: a record is read,
\* or the loop breaks and the records of the file are added to the result
ReaderReadFrame ==
    /\ last.op = "enumerate" /\ last.order # <<>> /\ last.pos >= 0
    /\ \E f \in {ReadFrame(files[Head(last.order)[2]], last.pos)} :
          last' = IF f.st = "ok"
                  THEN [last EXCEPT !.file_records = Append(@, f.content),
                                    !.pos = f.next]
                  ELSE [last EXCEPT !.records = @ \o last.file_records,
                                    !.file_records = <<>>,
                                    !.order = Tail(@),
                                    !.pos = -1]
    /\ UNCHANGED <<dir_exists, files, up, options, active_segments,
                   next_sequence, now, log, created, snapshot, hist, counter, pc>>

\* One writer that appends to key "a", every I/O call a step of its own, and
\* a reader on a second engine over the same directory that enumerates the
\* records of "a", every file and every frame a step of its own.
NextReader ==
    \/ \E opts \in {DefaultOptions} : Open(opts)
    \/ \E inp \in FaultChoices : BeginAppend(KeyA, inp)
    \/ WriteStep
    \/ FinishAppend
    \/ Tick
    \/ ReaderList(KeyA)
    \/ ReaderOpenFile
    \/ ReaderReadFrame

SpecReader == Init /\ [][NextReader]_vars

\* the contents of the appends the writer has entered, in order
Begun == [i \in 1..hist.appends |-> <<i>>] \o <<>>

\* C39: a reader calling enumerate_records(k) on a second engine instance
\* over the same directory, interleaved at any individual write step with one
\* writer that is creating a segment or writing a record frame for k (no
\* compaction running), returns a prefix of the sequence of contents appended
\* under k: never a partial content, a record out of order, a record skipped
\* before a returned one, or an error.
C39_ReaderSeesPrefix ==
    last.op = "enumerate" =>
        /\ IsPrefix(last.records \o last.file_records, Begun)
        /\ (last.order # <<>> /\ last.pos >= 0) =>
               VecOutcomes(FrameAllocation(files[Head(last.order)[2]], last.pos))
                   = {"allocated"}

\* C39 witness: the reader's call has returned the first two records, with
\* two segment files in the directory, while the writer is inside its third
\* append
C39_Witness ==
    /\ last.op = "enumerate" /\ last.order = <<>>
    /\ last.records = <<<<1>>, <<2>>>>
    /\ pc = "writing" /\ counter > 0
    /\ Cardinality(DOMAIN files) >= 2


\* ------------------------------------------------------------------------
\* The file name codec on its own (C40)
\* ------------------------------------------------------------------------

\* a key of 21 letters: its sanitized form is cut to 20 characters
KeyLong == [i \in 1..21 |-> 97]

\* the keys the codec is applied to: "a", "a-3", "!", "-", "a-", "12", "_",
\* "-1-2" and the long key
CodecKeys ==
    {KeyA, KeyA3, KeyBang, <<45>>, <<97, 45>>, <<49, 50>>, <<95>>,
     <<45, 49, 45, 50>>, KeyLong}

CodecHashes == {3, 12345}

CodecSequences == {0, 1, 9999, 10000, 123456}

\* the state before the first call: `snapshot` keeps the arguments of
\* generate_filename and what the codec returns, `pc` the position of the
\* caller
InitCodec ==
    /\ dir_exists = FALSE
    /\ files = EmptyMap
    /\ up = FALSE
    /\ options = DefaultOptions
    /\ active_segments = EmptyMap
    /\ next_sequence = EmptyMap
    /\ now = 0
    /\ log = <<>>
    /\ created = <<>>
    /\ \E key \in CodecKeys, key_hash \in CodecHashes, sequence \in CodecSequences :
           snapshot = [key |-> key, key_hash |-> key_hash, sequence |-> sequence]
    /\ hist = [appends |-> 0, opens |-> 0, removed |-> FALSE, faulted |-> FALSE,
               crashed |-> FALSE, power |-> "never", faults |-> 0, losses |-> 0,
               names_at_open |-> {}, keys |-> {}, shut |-> FALSE]
    /\ last = [op |-> "init"]
    /\ counter = 0
    /\ pc = "input"

\* a call of generate_filename with the arguments drawn
GenerateFilename ==
    /\ pc = "input"
    /\ snapshot' = [key |-> snapshot.key, key_hash |-> snapshot.key_hash,
                    sequence |-> snapshot.sequence,
                    name |-> generate_filename(snapshot.key, snapshot.key_hash,
                                               snapshot.sequence)]
    /\ pc' = "generated"
    /\ UNCHANGED <<dir_exists, files, up, options, active_segments,
                   next_sequence, now, log, created, hist, last, counter>>

\* a call of parse_filename with the name generated
ParseFilename ==
    /\ pc = "generated"
    /\ snapshot' = [key |-> snapshot.key, key_hash |-> snapshot.key_hash,
                    sequence |-> snapshot.sequence, name |-> snapshot.name,
                    parsed |-> parse_filename(snapshot.name)]
    /\ pc' = "parsed"
    /\ UNCHANGED <<dir_exists, files, up, options, active_segments,
                   next_sequence, now, log, created, hist, last, counter>>

\* file names parse_filename returns None for: "a-3-x.log" (a sequence that
\* is no number), "a-3--1.log" (an empty key hash), "a-3.log" (two
\* components) and "a-3-0001.bak" (no ".log")
ForeignNames ==
    { <<97, 45, 51, 45, 120>> \o LOG_SUFFIX,
      <<97, 45, 51, 45, 45, 49>> \o LOG_SUFFIX,
      <<97, 45, 51>> \o LOG_SUFFIX,
      <<97, 45, 51, 45, 48, 48, 48, 49, 46, 98, 97, 107>> }

\* what a foreign file holds: a whole segment of the key "a" with one record
ForeignFile(name) ==
    WriteChunks([n \in {name} |-> NoFile],
                [name |-> name, pos |-> 0, unlinked |-> FALSE],
                write_file_header(KeyA, MaxClock + 1)
                    \o RecordFrame(NoHeader, <<77>>), NoFail).files[name]

\* somebody else puts a file into the directory while no engine is open
PlaceFile(name) ==
    /\ ~up
    /\ name \notin DOMAIN files
    /\ dir_exists' = TRUE
    /\ files' = [n \in DOMAIN files \cup {name} |->
                    IF n = name THEN ForeignFile(name) ELSE files[n]]
    /\ UNCHANGED <<up, options, active_segments, next_sequence, now, log,
                   created, snapshot, hist, last, counter, pc>>

NextCodec ==
    \/ GenerateFilename
    \/ ParseFilename
    \/ \E name \in ForeignNames : PlaceFile(name)
    \/ Open(DefaultOptions)
    \/ AppendEntry(KeyA, [header |-> NoHeader, empty |-> FALSE, durable |-> TRUE])

SpecCodec == InitCodec /\ [][NextCodec]_vars

\* the directory without the files whose names do not parse
ParsingOnly(w) ==
    [w EXCEPT !.files = [n \in {m \in DOMAIN w.files : parse_filename(m) # NoName}
                            |-> w.files[n]]]

\* the open-time scan, read_entry_at and enumerate_records return what they
\* return without the files whose names do not parse
UnparsedNamesIgnored ==
    /\ scan_existing_files(files) = scan_existing_files(ParsingOnly(World).files)
    /\ \A entry_ref \in CandidateRefs :
           read_entry_at(World, entry_ref)
               = read_entry_at(ParsingOnly(World), entry_ref)
    /\ \A key \in Keys :
           enumerate_records(World, key)
               = enumerate_records(ParsingOnly(World), key)

\* C40: parse_filename(generate_filename(key, key_hash, seq)) is
\* (key_hash, seq) for every key, key hash and sequence number, also when the
\* sanitized key holds dashes or is empty and when the sequence number is
\* above 9999; and files whose names do not parse are ignored by the
\* open-time scan, by read_entry_at and by enumerate_records.
C40_FilenameRoundTrip ==
    /\ pc = "parsed" => snapshot.parsed = <<snapshot.key_hash, snapshot.sequence>>
    /\ UnparsedNamesIgnored

\* a name with dashes in its key part and a sequence number of five digits
\* has been parsed, in a directory that holds a file whose name does not
\* parse next to a segment of the same key with a record
C40_Witness ==
    /\ pc = "parsed"
    /\ \E i \in DOMAIN SanitizedKey(snapshot.key) :
           SanitizedKey(snapshot.key)[i] = CH_DASH
    /\ snapshot.sequence > 9999
    /\ \E n \in DOMAIN files :
           /\ parse_filename(n) = NoName
           /\ IsPrefix(SanitizedKey(KeyA) \o <<CH_DASH>> \o Decimal(KeyHash(KeyA))
                           \o <<CH_DASH>>, n)
    /\ enumerate_records(World, KeyA) # {<<>>}

=============================================================================
